---- MODULE Spec2Model ----
(***************************************************************************)
(* Diagnostics enrichment pipeline of invoiceguard: finding normalization, *)
(* the hot-reloadable dependency filter with its configuration file        *)
(* protocol, and the rule explainers.                                      *)
(***************************************************************************)
EXTENDS Integers, Sequences, FiniteSets, TLC

(***************************************************************************)
(* Python values.  A value is a record [t, v]: t is the Python type, v the *)
(* text of the value.  Absent marks a key that a dict does not hold.       *)
(***************************************************************************)
Absent == [t |-> "absent", v |-> ""]

PyNone == [t |-> "none", v |-> ""]

Str(s) == [t |-> "str", v |-> s]

PyInt == [t |-> "int", v |-> "7"]

PyList(s) == [t |-> "list", v |-> s]

IsStr(x) == x.t = "str"

\* list and dict values are unhashable: they cannot be set members or dict keys
Hashable(x) == x.t \notin {"list", "dict"}

\* str.lower() on the severity and mode spellings the model draws
Lower(s) ==
    CASE s = "Fatal" -> "fatal"
      [] s = "ERROR" -> "error"
      [] s = "Warning" -> "warning"
      [] s = "SHORT" -> "short"
      [] s = "Balanced" -> "balanced"
      [] s = "DETAILED" -> "detailed"
      [] s = "None" -> "none"
      [] OTHER -> s

Severities == {"fatal", "error", "warning"}

(***************************************************************************)
(* DiagnosticsPipeline.run, normalization (pipeline.py 32-76).  A raw      *)
(* finding is a dict over the keys id, message, severity, location and one *)
(* unknown key (extra).                                                    *)
(***************************************************************************)
HasKey(raw_item, key) == raw_item[key] # Absent

DictGet(raw_item, key, default) ==
    IF HasKey(raw_item, key) THEN raw_item[key] ELSE default

\* variant: an item is dropped only when both keys are missing
IsDroppedWhenBothMissing(raw_item) ==
    ~HasKey(raw_item, "id") /\ ~HasKey(raw_item, "message")

IsDropped(raw_item) == ~HasKey(raw_item, "id") \/ ~HasKey(raw_item, "message")

\* variant: the severity is compared without lower-casing
NormalizeSeverityCaseSensitive(raw_severity) ==
    IF IsStr(raw_severity) /\ raw_severity.v \in Severities
    THEN raw_severity.v
    ELSE "error"

NormalizeSeverity(raw_severity) ==
    IF IsStr(raw_severity)
    THEN IF Lower(raw_severity.v) \in Severities
         THEN Lower(raw_severity.v)
         ELSE "error"
    ELSE "error"

NormalizeLocation(raw_location) ==
    IF raw_location # PyNone /\ IsStr(raw_location)
    THEN raw_location
    ELSE PyNone

ErrorItemOf(raw_item) ==
    [id |-> raw_item["id"],
     message |-> raw_item["message"],
     location |-> NormalizeLocation(DictGet(raw_item, "location", PyNone)),
     severity |-> NormalizeSeverity(DictGet(raw_item, "severity", Str("error"))),
     suppressed |-> FALSE,
     humanized_message |-> PyNone]

RECURSIVE NormalizeLoop(_, _, _)
NormalizeLoop(raw_report, i, normalized_errors) ==
    IF i > Len(raw_report)
    THEN normalized_errors
    ELSE IF IsDropped(raw_report[i])
         THEN NormalizeLoop(raw_report, i + 1, normalized_errors)
         ELSE NormalizeLoop(raw_report, i + 1,
                            Append(normalized_errors, ErrorItemOf(raw_report[i])))

(***************************************************************************)
(* DependencyFilter.apply, the suppression pass (dependency_filter.py      *)
(* 163-182).  dependencies is a function from parent ids to sequences of   *)
(* child ids; an empty dict is the empty function.                         *)
(***************************************************************************)
\* variant: only the findings that are not suppressed count as parents
ActiveIds(errors) == {errors[i].id : i \in {j \in DOMAIN errors : ~errors[j].suppressed}}

PresentIds(errors) == {errors[i].id : i \in DOMAIN errors}

\* variant: the test that keeps a parent out of its own children is missing
KeepsAnyChild(child_id, parent_id) == TRUE

KeepsChild(child_id, parent_id) == child_id # parent_id

ChildrenToSuppress(dependencies, present_ids) ==
    UNION {{dependencies[p.v][k] :
                k \in {j \in DOMAIN dependencies[p.v] :
                          KeepsChild(dependencies[p.v][j], p.v)}} :
           p \in {q \in present_ids : IsStr(q) /\ q.v \in DOMAIN dependencies}}

\* variant: the flag of a child is flipped instead of set
MarkFlipped(error, children_to_suppress) ==
    IF IsStr(error.id) /\ error.id.v \in children_to_suppress
    THEN [error EXCEPT !.suppressed = ~@]
    ELSE error

MarkSuppressed(error, children_to_suppress) ==
    IF IsStr(error.id) /\ error.id.v \in children_to_suppress
    THEN [error EXCEPT !.suppressed = TRUE]
    ELSE error

\* the pass after reload_if_changed: raised is TRUE when building the set of
\* present ids hits an unhashable id (TypeError)
SuppressionPass(dependencies, errors) ==
    IF DOMAIN dependencies = {}
    THEN [raised |-> FALSE, errors |-> errors]
    ELSE IF \E i \in DOMAIN errors : ~Hashable(errors[i].id)
         THEN [raised |-> TRUE, errors |-> errors]
         ELSE [raised |-> FALSE,
               errors |-> [i \in DOMAIN errors |->
                             MarkSuppressed(errors[i],
                                 ChildrenToSuppress(dependencies, PresentIds(errors)))]]

(***************************************************************************)
(* The configuration file.  A JSON value is [kind, entries]: kind "dict"   *)
(* with entries a function from parent id to child list, kind "list" for a *)
(* root that is not an object, kind "notjson" for text json.loads rejects. *)
(* A child list is [t, items]; t is "list" for a JSON array.               *)
(***************************************************************************)
JsonDict(entries) == [kind |-> "dict", entries |-> entries]

JsonList == [kind |-> "list", entries |-> <<>>]

NotJson == [kind |-> "notjson", entries |-> <<>>]

NoData == [kind |-> "none", entries |-> <<>>]

ChildList(items) == [t |-> "list", items |-> items]

NotAList == [t |-> "str", items |-> <<>>]

\* the text of a file is written and stored in FileParts pieces
FileParts == 2

Serialize(value) == [k \in 1..FileParts |-> [json |-> value, part |-> k]]

IsComplete(content) ==
    /\ Len(content) = FileParts
    /\ \A k \in 1..FileParts : content[k] = [json |-> content[1].json, part |-> k]

\* json.loads(content): ok is FALSE for a JSONDecodeError
JsonLoads(content) ==
    IF IsComplete(content) /\ content[1].json.kind # "notjson"
    THEN [ok |-> TRUE, value |-> content[1].json]
    ELSE [ok |-> FALSE, value |-> NoData]

(***************************************************************************)
(* DependencyFilter._atomic_read_config (dependency_filter.py 86-138): one *)
(* pass of the retry loop.  st is the loop state; locked says whether the  *)
(* non-blocking shared lock request met an exclusive lock (EAGAIN),        *)
(* content is what f.read() returns.  Delays are in milliseconds.          *)
(***************************************************************************)
max_retries == 3

retry_delay_ms == 100

\* variant: the delay is not doubled
NextDelaySame(retry_delay) == retry_delay

NextDelay(retry_delay) == retry_delay * 2

ReadStart ==
    [attempt |-> 0, tries |-> 0, retry_delay |-> retry_delay_ms, sleeps |-> <<>>,
     status |-> "running", data |-> NoData]

\* `continue`: the next value of range(max_retries), or the end of the loop
\* and the final `return None`
Continue(st) ==
    IF st.attempt + 1 < max_retries
    THEN [st EXCEPT !.attempt = @ + 1]
    ELSE [st EXCEPT !.attempt = @ + 1, !.status = "done", !.data = NoData]

\* time.sleep(retry_delay); contended tells the sleep after EAGAIN from the
\* sleep after a JSONDecodeError
Slept(st, contended) ==
    [st EXCEPT !.sleeps = Append(@, [delay |-> st.retry_delay, contended |-> contended])]

ReadAttempt(st, locked, content) ==
    LET t == [st EXCEPT !.tries = @ + 1] IN
    IF locked
    THEN Continue([Slept(t, TRUE) EXCEPT !.retry_delay = NextDelay(@)])
    ELSE IF JsonLoads(content).ok
         THEN [t EXCEPT !.status = "done", !.data = JsonLoads(content).value]
         ELSE IF t.attempt < max_retries - 1
              THEN Continue(Slept(t, FALSE))
              ELSE [t EXCEPT !.status = "done", !.data = NoData]

RECURSIVE AtomicReadConfig(_, _, _)
AtomicReadConfig(st, locked, content) ==
    IF st.status = "done"
    THEN st
    ELSE AtomicReadConfig(ReadAttempt(st, locked, content), locked, content)

(***************************************************************************)
(* DependencyFilter._load_dependencies (dependency_filter.py 31-84): the   *)
(* map that is active after a load that read config_data.                  *)
(***************************************************************************)
ValidChildren(items) ==
    [k \in 1..Len(SelectSeq(items, IsStr)) |-> SelectSeq(items, IsStr)[k].v]

ValidateConfig(entries) ==
    [p \in {q \in DOMAIN entries : entries[q].t = "list"} |->
        ValidChildren(entries[p].items)]

\* variant: a failed load leaves an empty map, as the branch for a missing
\* file does
LoadDependenciesResetting(dependencies, config_data) ==
    IF config_data = NoData \/ config_data.kind # "dict"
    THEN <<>>
    ELSE ValidateConfig(config_data.entries)

LoadDependencies(dependencies, config_data) ==
    IF config_data = NoData
    THEN dependencies
    ELSE IF config_data.kind # "dict"
         THEN dependencies
         ELSE ValidateConfig(config_data.entries)

ShouldReloadConfig(current_modified, last_mod) == current_modified > last_mod

\* reload_if_changed on a file that does not change during the call
ReloadIfChanged(dependencies, last_mod, current_modified, locked, content) ==
    IF ShouldReloadConfig(current_modified, last_mod)
    THEN [dependencies |->
             LoadDependencies(dependencies,
                 AtomicReadConfig(ReadStart, locked, content).data),
          last_modified |-> current_modified]
    ELSE [dependencies |-> dependencies, last_modified |-> last_mod]

(***************************************************************************)
(* The parsed document.  A document is [wellformed, style, root, elems]:   *)
(* elems lists its elements in document order, each [name, parent, line,   *)
(* text, currencyID] (line is the number of the InvoiceLine the element is *)
(* inside, 0 outside any; text is PyNone or a str; currencyID is "" when   *)
(* the attribute is missing).  style says how namespaces are declared:     *)
(* "prefixed" (xmlns:cbc and xmlns:cac, elements carry the prefixes),      *)
(* "default" (one default namespace only) or "none" (no declaration).      *)
(***************************************************************************)
\* variant: a recovering parser that returns a tree for any bytes
ParseRecovering(content) ==
    [raised |-> FALSE, tree |-> [kind |-> "tree", doc |-> content]]

\* SafeXMLLoader.parse: every failure of lxml becomes XMLParsingError
Parse(content) ==
    IF content.wellformed
    THEN [raised |-> FALSE, tree |-> [kind |-> "tree", doc |-> content]]
    ELSE [raised |-> TRUE, tree |-> [kind |-> "none", doc |-> content]]

\* SafeXMLLoader.get_namespaces: the prefixes of the root's nsmap, the
\* default namespace renamed to inv
GetNamespaces(tree) ==
    CASE tree.doc.style = "prefixed" -> {"inv", "cbc", "cac"}
      [] tree.doc.style = "default" -> {"inv"}
      [] OTHER -> {}

\* a location query: kind "prefixed" (.//cac:P/cbc:N or .//cbc:N), "local"
\* (local-name() tests), "bare" (.//N), "attr" (.//*[@currencyID]) or
\* "invalid" (text that is no XPath expression)
Query(kind, prefixes, parent, name) ==
    [kind |-> kind, prefixes |-> prefixes, parent |-> parent, name |-> name]

\* .//cac:parent/cbc:name
Prefixed(parent, name) == Query("prefixed", {"cac", "cbc"}, parent, name)

\* .//cbc:name
Cbc(name) == Query("prefixed", {"cbc"}, "", name)

\* .//cac:name
Cac(name) == Query("prefixed", {"cac"}, "", name)

\* .//*[local-name()="parent"]/*[local-name()="name"], or without the parent
LocalName(parent, name) == Query("local", {}, parent, name)

Bare(name) == Query("bare", {}, "", name)

HasCurrencyID == Query("attr", {}, "", "")

InvalidQuery == Query("invalid", {}, "", "")

Matches(e, q, style) ==
    CASE q.kind = "prefixed" ->
            style = "prefixed" /\ e.name = q.name /\ (q.parent = "" \/ e.parent = q.parent)
      [] q.kind = "local" -> e.name = q.name /\ (q.parent = "" \/ e.parent = q.parent)
      [] q.kind = "bare" -> style = "none" /\ e.name = q.name
      [] q.kind = "attr" -> e.currencyID # ""
      [] OTHER -> FALSE

InScope(e, line) == line = 0 \/ (e.line = line /\ e.name # "InvoiceLine")

\* node.xpath(q, namespaces=...): raises for an object that is no tree, for an
\* undeclared prefix and for an invalid expression
XPath(tree, q, namespaces, line) ==
    IF tree.kind # "tree" \/ q.kind = "invalid" \/ ~(q.prefixes \subseteq namespaces)
    THEN [raised |-> TRUE, elems |-> <<>>]
    ELSE [raised |-> FALSE,
          elems |-> SelectSeq(tree.doc.elems,
                       LAMBDA e : Matches(e, q, tree.doc.style) /\ InScope(e, line))]

\* truth value of a Python value
Truthy(x) ==
    CASE x.t = "none" -> FALSE
      [] x.t = "absent" -> FALSE
      [] x.t = "str" -> x.v # ""
      [] OTHER -> TRUE

\* str.strip() on the element texts the model draws
Strip(s) == IF s = "  " THEN "" ELSE s

\* `not xml_tree`
TreeMissing(tree) == tree.kind = "none"

(***************************************************************************)
(* Decimal texts.  Amounts are texts with two decimals; Cents gives their  *)
(* value in hundredths, Fmt2 is the format "{:.2f}".                       *)
(***************************************************************************)
AmountCents ==
    [s \in {"0", "0.00", "0.01", "20.00", "100.00", "119.00", "120.00", "120.01", "20"} |->
        CASE s = "20.00" -> 2000
          [] s = "0.01" -> 1
          [] s = "120.01" -> 12001
          [] s = "100.00" -> 10000
          [] s = "119.00" -> 11900
          [] s = "120.00" -> 12000
          [] s = "20" -> 2000
          [] OTHER -> 0]

\* float(s) succeeds
IsNumeric(s) == s \in DOMAIN AmountCents

Cents(s) == AmountCents[s]

Digit(d) == <<"0", "1", "2", "3", "4", "5", "6", "7", "8", "9">>[d + 1]

RECURSIVE NatStr(_)
NatStr(n) == IF n < 10 THEN Digit(n) ELSE NatStr(n \div 10) \o Digit(n % 10)

Fmt2(c) == NatStr(c \div 100) \o "." \o Digit((c % 100) \div 10) \o Digit(c % 10)

RECURSIVE JoinWith(_, _)
JoinWith(parts, sep) ==
    IF Len(parts) = 0 THEN ""
    ELSE IF Len(parts) = 1 THEN parts[1]
    ELSE parts[1] \o sep \o JoinWith(Tail(parts), sep)

(***************************************************************************)
(* BrCo15Explainer (rule_explainers/br_co_15.py).                          *)
(***************************************************************************)
\* InvoiceTerminology.FIELDS[...].xpath_strategies of a monetary total
\* variant: the chain without the local-name query that names the parent
MonetaryStrategiesShort(parent, name) ==
    <<Prefixed(parent, name), Cbc(name), LocalName("", name)>>

MonetaryStrategies(parent, name) ==
    <<Prefixed(parent, name), Cbc(name), LocalName(parent, name), LocalName("", name)>>

\* the loop over the strategies of one field: the stripped text of the first
\* element of the first strategy that yields a non-blank text, and the
\* number of that strategy (0: none)
RECURSIVE TryStrategies(_, _, _, _)
TryStrategies(tree, namespaces, strategies, i) ==
    IF i > Len(strategies)
    THEN [value |-> PyNone, strategy |-> 0]
    ELSE LET q == strategies[i]
             skipped == q.kind = "prefixed" /\ namespaces = {}
             r == XPath(tree, q, namespaces, 0)
         IN  IF skipped \/ r.raised \/ Len(r.elems) = 0
             THEN TryStrategies(tree, namespaces, strategies, i + 1)
             ELSE IF Truthy(r.elems[1].text) /\ Strip(r.elems[1].text.v) # ""
                  THEN [value |-> Str(Strip(r.elems[1].text.v)), strategy |-> i]
                  ELSE TryStrategies(tree, namespaces, strategies, i + 1)

ExtractMonetaryEvidence(tree, namespaces) ==
    LET tax_exclusive ==
            TryStrategies(tree, namespaces,
                MonetaryStrategies("LegalMonetaryTotal", "TaxExclusiveAmount"), 1)
        tax_amount ==
            TryStrategies(tree, namespaces, MonetaryStrategies("TaxTotal", "TaxAmount"), 1)
        payable ==
            TryStrategies(tree, namespaces,
                MonetaryStrategies("LegalMonetaryTotal", "PayableAmount"), 1)
    IN  [extraction_successful |-> Truthy(payable.value),
         tax_exclusive |-> tax_exclusive.value,
         tax_amount |-> tax_amount.value,
         payable |-> payable.value,
         payable_strategy |-> payable.strategy]

tolerance_cents == 1

\* abs(calculated - pay) <= 0.01 on IEEE 754 doubles, where the exact
\* difference is one cent: the operands (in cents) for which the rounded
\* difference is not above the double nearest to 0.01.  Among the amounts
\* the model draws these are the ones where the subtraction is exact; for the
\* others, e.g. (100.00 + 20.00) - 120.01, the result is
\* 0.010000000000005116
WithinOneCent == {<<0, 0, 1>>, <<0, 1, 0>>, <<1, 0, 0>>, <<1, 1, 1>>}

\* abs(calculated - pay) <= tolerance on the floats of the three texts
WithinTolerance(exclusive, tax, pay, diff) ==
    IF diff = tolerance_cents
    THEN <<exclusive, tax, pay>> \in WithinOneCent
    ELSE diff < tolerance_cents

CheckArithmetic(tax_exclusive, tax_amount, payable) ==
    IF ~Truthy(tax_exclusive) \/ ~Truthy(payable)
    THEN FALSE
    ELSE IF ~IsNumeric(tax_exclusive.v) \/ ~IsNumeric(payable.v)
            \/ (Truthy(tax_amount) /\ ~IsNumeric(tax_amount.v))
         THEN FALSE
         ELSE LET exclusive == Cents(tax_exclusive.v)
                  tax == IF Truthy(tax_amount) THEN Cents(tax_amount.v) ELSE 0
                  pay == Cents(payable.v)
                  calculated == exclusive + tax
                  diff == IF calculated >= pay THEN calculated - pay ELSE pay - calculated
              IN  WithinTolerance(exclusive, tax, pay, diff)

BrCo15Generic ==
    Str("Invoice total calculation error. Please verify that the Tax Inclusive Amount (BT-112) "
        \o "matches the sum of Tax Exclusive Amount (BT-109) and Tax Amount (BT-110).")

BrCo15Details(evidence) ==
    <<"Tax Exclusive Amount (BT-109): " \o evidence.tax_exclusive.v,
      IF Truthy(evidence.tax_amount)
      THEN "Tax Amount (BT-110): " \o evidence.tax_amount.v
      ELSE "Tax Amount (BT-110): (not found or zero)",
      "Tax Inclusive Amount (BT-112): " \o evidence.payable.v>>

\* the message of the branch `if not evidence['extraction_successful']`
BrCo15NoAmounts ==
    Str("Invoice total calculation error. Could not extract monetary amounts "
        \o "from the invoice XML. Please verify that the Tax Inclusive Amount (BT-112) equals "
        \o "the Tax Exclusive Amount (BT-109) plus Tax Amount (BT-110) according to BR-CO-15.")

\* the message of the branch `if math_correct`
BrCo15Correct(evidence) ==
    Str(JoinWith(<<"Invoice total calculation error.",
        "The calculation appears correct (" \o evidence.tax_exclusive.v \o " + "
        \o (IF Truthy(evidence.tax_amount) THEN evidence.tax_amount.v ELSE "0")
        \o " = " \o evidence.payable.v \o "), "
        \o "but the validator rejected it. This is often caused by Currency Code mismatches between "
        \o "the Document Currency Code (BT-5) and the currencyID attributes on amount fields. "
        \o "Check for other currency-related errors (e.g., PEPPOL-EN16931-R051).">>, " "))

\* the message of the branch `elif evidence['tax_exclusive'] and evidence['payable']`
BrCo15Mismatch(evidence) ==
    Str(JoinWith(<<"Invoice total calculation error.",
        "The Tax Inclusive Amount (BT-112) does not match the sum of Tax Exclusive Amount (BT-109) plus Tax Amount (BT-110).",
        "Found: " \o JoinWith(BrCo15Details(evidence), ", ") \o ".",
        "Please verify the arithmetic calculation of the invoice totals.">>, " "))

\* the message of the last branch
BrCo15Incomplete ==
    Str(JoinWith(<<"Invoice total calculation error.",
        "Could not extract all required amounts for detailed analysis. "
        \o "Please verify that Tax Inclusive Amount (BT-112) = Tax Exclusive Amount (BT-109) + Tax Amount (BT-110).">>, " "))

BrCo15Message(evidence) ==
    IF ~evidence.extraction_successful
    THEN BrCo15NoAmounts
    ELSE IF CheckArithmetic(evidence.tax_exclusive, evidence.tax_amount, evidence.payable)
    THEN BrCo15Correct(evidence)
    ELSE IF Truthy(evidence.tax_exclusive) /\ Truthy(evidence.payable)
    THEN BrCo15Mismatch(evidence)
    ELSE BrCo15Incomplete

\* explain: the finding after the call.  context is [xml_tree, namespaces];
\* a context that is no InspectionContext (kind "bogus") raises inside the try
BrCo15Explain(error, context) ==
    IF context.kind = "bogus"
    THEN [error EXCEPT !.humanized_message = BrCo15Generic]
    ELSE IF TreeMissing(context.xml_tree)
    THEN [error EXCEPT !.humanized_message = BrCo15Generic]
    ELSE [error EXCEPT !.humanized_message =
             BrCo15Message(ExtractMonetaryEvidence(context.xml_tree, context.namespaces))]

(***************************************************************************)
(* BrCo16Explainer (rule_explainers/br_co_16.py).                          *)
(***************************************************************************)
\* `text or default`
TextOr(text, default) == IF Truthy(text) THEN text.v ELSE default

\* the VAT amount text of one invoice line
LineVatAmount(tree, namespaces, line) ==
    LET line_vat == XPath(tree, Prefixed("TaxTotal", "TaxAmount"), namespaces, line)
        amounts == XPath(tree, Cbc("LineExtensionAmount"), namespaces, line)
        percents == XPath(tree, Prefixed("ClassifiedTaxCategory", "Percent"), namespaces, line)
    IN  IF Len(line_vat.elems) > 0
        THEN TextOr(line_vat.elems[1].text, "0.00")
        ELSE IF Len(amounts.elems) > 0 /\ Len(percents.elems) > 0
             THEN LET a == TextOr(amounts.elems[1].text, "0")
                      p == TextOr(percents.elems[1].text, "0")
                  IN  IF IsNumeric(a) /\ IsNumeric(p)
                      THEN Fmt2((Cents(a) * Cents(p)) \div 10000)
                      ELSE "0.00"
             ELSE "0.00"

\* _extract_vat_evidence: found is FALSE for the None the method returns
\* when a query raises
ExtractVatEvidence(tree, namespaces) ==
    LET totals == XPath(tree, Prefixed("TaxTotal", "TaxAmount"), namespaces, 0)
        lines == XPath(tree, Cac("InvoiceLine"), namespaces, 0)
    IN  IF totals.raised \/ lines.raised
        THEN [found |-> FALSE, total_vat_amount |-> "N/A", line_count |-> 0,
              line_vat_amounts |-> <<>>]
        ELSE [found |-> TRUE,
              total_vat_amount |->
                  IF Len(totals.elems) > 0 THEN TextOr(totals.elems[1].text, "0.00") ELSE "N/A",
              line_count |-> Len(lines.elems),
              line_vat_amounts |->
                  [k \in 1..Len(lines.elems) |->
                      LineVatAmount(tree, namespaces, lines.elems[k].line)]]

RECURSIVE SumCents(_)
SumCents(amounts) ==
    IF Len(amounts) = 0 THEN 0 ELSE Cents(amounts[1]) + SumCents(Tail(amounts))

BrCo16Fallback ==
    Str("VAT calculation error. The declared total VAT amount does not match the sum of VAT amounts from invoice lines. Please check your VAT calculations.")

BrCo16NoEvidence ==
    Str("VAT calculation error. Unable to extract tax amounts from the invoice. Please verify that all VAT amounts are correctly calculated and declared.")

\* generate_explanation: a str, or PyNone
BrCo16GenerateExplanation(error, context) ==
    IF TreeMissing(context.xml_tree)
    THEN Str("VAT calculation error. The total VAT amount in tax totals does not match the sum of line-level VAT amounts. Please verify VAT calculations across all invoice lines.")
    ELSE LET evidence == ExtractVatEvidence(context.xml_tree, context.namespaces) IN
         IF ~evidence.found
         THEN BrCo16NoEvidence
         ELSE IF Len(evidence.line_vat_amounts) = 0
         THEN Str(JoinWith(<<"VAT calculation mismatch detected.",
                  "Total VAT Amount declared: " \o evidence.total_vat_amount,
                  "Number of invoice lines: " \o NatStr(evidence.line_count),
                  "Please verify that the total VAT amount equals the sum of all line-level VAT calculations.">>, " "))
         ELSE IF \E k \in DOMAIN evidence.line_vat_amounts :
                     ~IsNumeric(evidence.line_vat_amounts[k])
         THEN BrCo16Fallback
         ELSE Str(JoinWith(<<"VAT calculation mismatch detected.",
                  "Total VAT Amount declared: " \o evidence.total_vat_amount,
                  "Number of invoice lines: " \o NatStr(evidence.line_count),
                  "Sum of line VAT amounts: " \o Fmt2(SumCents(evidence.line_vat_amounts)),
                  "Line VAT details: " \o JoinWith(evidence.line_vat_amounts, ", "),
                  "Please verify that the total VAT amount equals the sum of all line-level VAT calculations.">>, " "))

\* variant: the except branch swallows the error and stores nothing
BrCo16ExplainSilent(error, context) ==
    IF context.kind = "bogus"
    THEN error
    ELSE [error EXCEPT !.humanized_message = BrCo16GenerateExplanation(error, context)]

\* explain of BrCo16Explainer: the message is stored when it is truthy; a
\* context that is no InspectionContext raises and takes the except branch
BrCo16Explain(error, context) ==
    IF context.kind = "bogus"
    THEN [error EXCEPT !.humanized_message = BrCo16Fallback]
    ELSE LET humanized_message == BrCo16GenerateExplanation(error, context) IN
         IF Truthy(humanized_message)
         THEN [error EXCEPT !.humanized_message = humanized_message]
         ELSE error

(***************************************************************************)
(* PeppolR001Explainer (rule_explainers/peppol_r001.py).                   *)
(***************************************************************************)
\* _extract_profile_evidence, also used in the shape of
\* _extract_customization_evidence: does the element exist, and its text
ExtractIdEvidence(tree, namespaces, name) ==
    LET r == XPath(tree, Cbc(name), namespaces, 0) IN
    IF r.raised \/ Len(r.elems) = 0
    THEN [raised |-> r.raised, exists |-> FALSE, value |-> PyNone]
    ELSE [raised |-> FALSE, exists |-> TRUE,
          value |-> IF Truthy(r.elems[1].text) THEN Str(Strip(r.elems[1].text.v)) ELSE Str("")]

PeppolR001Fallback ==
    Str("Missing or invalid business process identifier. The invoice must include a ProfileID element specifying the PEPPOL business process (e.g., 'urn:fdc:peppol.eu:2017:poacc:billing:01:1.0').")

PeppolR001GenerateExplanation(error, context) ==
    IF TreeMissing(context.xml_tree)
    THEN Str("Missing business process identifier. The invoice must include a ProfileID element specifying the PEPPOL BIS process being used (typically 'urn:fdc:peppol.eu:2017:poacc:billing:01:1.0').")
    ELSE LET evidence == ExtractIdEvidence(context.xml_tree, context.namespaces, "ProfileID") IN
         IF evidence.exists
         THEN IF Truthy(evidence.value)
              THEN Str("Invalid business process identifier. Found ProfileID: '" \o evidence.value.v
                       \o "'. For PEPPOL BIS 3.0 invoicing, use 'urn:fdc:peppol.eu:2017:poacc:billing:01:1.0'. For credit notes, use 'urn:fdc:peppol.eu:2017:poacc:billing:01:1.0'.")
              ELSE Str("Empty business process identifier. The ProfileID element exists but is empty. For PEPPOL BIS 3.0 invoicing, use 'urn:fdc:peppol.eu:2017:poacc:billing:01:1.0'.")
         ELSE Str("Missing business process identifier. Add a ProfileID element with value 'urn:fdc:peppol.eu:2017:poacc:billing:01:1.0' for PEPPOL BIS 3.0 invoicing. This identifies which business process the invoice follows.")

PeppolR001Explain(error, context) ==
    IF context.kind = "bogus"
    THEN [error EXCEPT !.humanized_message = PeppolR001Fallback]
    ELSE LET humanized_message == PeppolR001GenerateExplanation(error, context) IN
         IF Truthy(humanized_message)
         THEN [error EXCEPT !.humanized_message = humanized_message]
         ELSE error

(***************************************************************************)
(* UblCr001Explainer (rule_explainers/ubl_cr_001.py).                      *)
(***************************************************************************)
UblCr001ForPeppol ==
    "For PEPPOL BIS 3.0, use 'urn:cen.eu:en16931:2017#compliant#urn:fdc:peppol.eu:2017:poacc:billing:3.0'."

UblCr001Fallback ==
    Str("Missing document specification identifier. The document must include a CustomizationID element that identifies the specification being used (e.g., 'urn:cen.eu:en16931:2017#compliant#urn:fdc:peppol.eu:2017:poacc:billing:3.0').")

UblCr001GenerateExplanation(error, context) ==
    IF TreeMissing(context.xml_tree)
    THEN UblCr001Fallback
    ELSE LET evidence ==
                 ExtractIdEvidence(context.xml_tree, context.namespaces, "CustomizationID")
             \* the root tag without its namespace; None when the lookup raised
             document_type ==
                 IF evidence.raised THEN PyNone ELSE Str(context.xml_tree.doc.root)
             head ==
                 IF evidence.exists
                 THEN IF Truthy(evidence.value)
                      THEN <<"Invalid document specification identifier. Found CustomizationID: '"
                               \o evidence.value.v \o "'.", UblCr001ForPeppol>>
                      ELSE <<"Empty document specification identifier. The CustomizationID element exists but is empty.",
                             UblCr001ForPeppol>>
                 ELSE <<"Missing document specification identifier. Add a CustomizationID element.",
                        UblCr001ForPeppol>>
             doctype ==
                 IF Truthy(document_type)
                 THEN <<"Document type detected: " \o document_type.v \o ".">>
                 ELSE <<>>
         IN  Str(JoinWith(head \o doctype \o
                 <<"This identifier specifies which business document specification and rules the document should comply with.">>,
                 " "))

UblCr001Explain(error, context) ==
    IF context.kind = "bogus"
    THEN [error EXCEPT !.humanized_message = UblCr001Fallback]
    ELSE LET humanized_message == UblCr001GenerateExplanation(error, context) IN
         IF Truthy(humanized_message)
         THEN [error EXCEPT !.humanized_message = humanized_message]
         ELSE error

(***************************************************************************)
(* R051Explainer (rule_explainers/r051.py).                                *)
(***************************************************************************)
R051Inconsistent ==
    Str("Currency Conflict. The Document Currency Code (BT-5) and the currencyID attributes "
        \o "on monetary amounts are inconsistent. Please decide which currency is correct "
        \o "and make them consistent throughout the invoice.")

R051Fallback ==
    Str("Currency Conflict. The Document Currency Code (BT-5) and currencyID attributes "
        \o "on amounts are inconsistent. Please make them consistent.")

\* a .//cbc: query is evaluated with the namespaces only when the map is
\* not empty; without them the prefix is undeclared
R051XPath(tree, q, namespaces) ==
    IF q.kind = "prefixed" /\ namespaces # {}
    THEN XPath(tree, q, namespaces, 0)
    ELSE XPath(tree, q, {}, 0)

RECURSIVE R051DocumentCurrency(_, _, _, _)
R051DocumentCurrency(tree, namespaces, currency_xpaths, i) ==
    IF i > Len(currency_xpaths)
    THEN PyNone
    ELSE LET r == R051XPath(tree, currency_xpaths[i], namespaces) IN
         IF ~r.raised /\ Len(r.elems) > 0 /\ Truthy(r.elems[1].text)
         THEN Str(Strip(r.elems[1].text.v))
         ELSE R051DocumentCurrency(tree, namespaces, currency_xpaths, i + 1)

\* the expression a finding's location text stands for
LocationQuery(location) ==
    CASE location = "//cbc:PayableAmount" -> Cbc("PayableAmount")
      [] location = "//PayableAmount" -> Bare("PayableAmount")
      [] location = "//Total" -> Bare("Total")
      [] OTHER -> InvalidQuery

\* element.get('currencyID'): PyNone when the attribute is missing
GetCurrencyID(e) == IF e.currencyID = "" THEN PyNone ELSE Str(e.currencyID)

R051FromLocation(tree, namespaces, error_location) ==
    IF ~Truthy(error_location)
    THEN PyNone
    ELSE LET r == XPath(tree, LocationQuery(error_location.v), namespaces, 0) IN
         IF ~r.raised /\ Len(r.elems) > 0
         THEN GetCurrencyID(r.elems[1])
         ELSE PyNone

\* the first element of elems whose currencyID differs from the document currency
FirstMismatch(elems, document_currency) ==
    LET hits == SelectSeq(elems, LAMBDA e :
                    e.currencyID # "" /\ Truthy(document_currency)
                    /\ e.currencyID # document_currency.v)
    IN  IF Len(hits) > 0 THEN Str(hits[1].currencyID) ELSE PyNone

RECURSIVE R051FromAmounts(_, _, _, _, _)
R051FromAmounts(tree, namespaces, amount_xpaths, document_currency, i) ==
    IF i > Len(amount_xpaths)
    THEN PyNone
    ELSE LET r == R051XPath(tree, amount_xpaths[i], namespaces) IN
         IF ~r.raised /\ Truthy(FirstMismatch(r.elems, document_currency))
         THEN FirstMismatch(r.elems, document_currency)
         ELSE R051FromAmounts(tree, namespaces, amount_xpaths, document_currency, i + 1)

R051Explain(error, context) ==
    IF context.kind = "bogus"
    THEN [error EXCEPT !.humanized_message = R051Fallback]
    ELSE IF TreeMissing(context.xml_tree)
    THEN [error EXCEPT !.humanized_message = R051Inconsistent]
    ELSE LET tree == context.xml_tree
             namespaces == context.namespaces
             document_currency ==
                 R051DocumentCurrency(tree, namespaces,
                     <<Cbc("DocumentCurrencyCode"), LocalName("", "DocumentCurrencyCode")>>, 1)
             at_location == R051FromLocation(tree, namespaces, error.location)
             found_currency ==
                 IF Truthy(at_location)
                 THEN at_location
                 ELSE R051FromAmounts(tree, namespaces,
                          <<HasCurrencyID, Cbc("TaxExclusiveAmount"),
                            Cbc("TaxInclusiveAmount"), Cbc("PayableAmount")>>,
                          document_currency, 1)
         IN  IF Truthy(document_currency) /\ Truthy(found_currency)
             THEN [error EXCEPT !.humanized_message =
                      Str("Currency Conflict. The Document Currency is '" \o document_currency.v
                          \o "', but this field uses '" \o found_currency.v
                          \o "'. Please make them consistent.")]
             ELSE IF Truthy(document_currency)
             THEN [error EXCEPT !.humanized_message =
                      Str("Currency Conflict. The Document Currency Code (BT-5) is '"
                          \o document_currency.v \o "', "
                          \o "but amounts use a different currencyID. Please decide which currency is correct "
                          \o "and make them consistent (either update BT-5, or update the currencyID on all amounts).")]
             ELSE [error EXCEPT !.humanized_message = R051Inconsistent]

(***************************************************************************)
(* ExplainerFactory (rule_explainers/factory.py).                          *)
(***************************************************************************)
REGISTRY == {"BR-CO-15", "BR-CO-16", "PEPPOL-EN16931-R001", "UBL-CR-001"}

\* the explain method of the explainer class named cls
Explain(cls, error, context) ==
    CASE cls = "BR-CO-15" -> BrCo15Explain(error, context)
      [] cls = "BR-CO-16" -> BrCo16Explain(error, context)
      [] cls = "PEPPOL-EN16931-R001" -> PeppolR001Explain(error, context)
      [] cls = "UBL-CR-001" -> UblCr001Explain(error, context)
      [] cls = "PEPPOL-EN16931-R051" -> R051Explain(error, context)

(***************************************************************************)
(* DiagnosticsPipeline.run after the normalization (pipeline.py 78-128).   *)
(***************************************************************************)
FatalError ==
    [id |-> Str("SYS-XML-001"),
     message |-> Str("XML syntax error"),
     severity |-> "fatal",
     location |-> PyNone,
     suppressed |-> FALSE,
     humanized_message |-> PyNone]

\* the loop over the findings: raised is TRUE when REGISTRY.get meets an
\* unhashable id (TypeError); calls lists the ids handed to an explainer
RECURSIVE ExplainLoop(_, _, _, _)
ExplainLoop(errors, context, i, calls) ==
    IF i > Len(errors)
    THEN [raised |-> FALSE, errors |-> errors, calls |-> calls]
    ELSE LET error == errors[i] IN
         IF error.suppressed
         THEN ExplainLoop(errors, context, i + 1, calls)
         ELSE IF ~Hashable(error.id)
         THEN [raised |-> TRUE, errors |-> errors, calls |-> calls]
         ELSE IF ~(IsStr(error.id) /\ error.id.v \in REGISTRY)
         THEN ExplainLoop(errors, context, i + 1, calls)
         ELSE ExplainLoop([errors EXCEPT ![i] = Explain(error.id.v, error, context)],
                          context, i + 1, Append(calls, error.id.v))

Raised(exc) == [kind |-> "raised", exc |-> exc, fatal_error |-> PyNone, processed_errors |-> <<>>]

DiagnosticsResult(fatal_error, processed_errors) ==
    [kind |-> "returned", exc |-> "", fatal_error |-> fatal_error,
     processed_errors |-> processed_errors]

\* what run does with the normalized findings: the result, the filter's state
\* after the call and the calls made.  mtime, locked and content describe the
\* configuration file, which does not change during the call
RunAfterNormalization(normalized, xml, deps, last_mod, mtime, locked, content) ==
    LET parsed == Parse(xml) IN
    IF parsed.raised
    THEN [result |-> DiagnosticsResult(FatalError, <<>>),
          dependencies |-> deps, last_modified |-> last_mod,
          filter_calls |-> 0, explainer_calls |-> <<>>]
    ELSE LET context == [kind |-> "context", xml_tree |-> parsed.tree,
                         namespaces |-> GetNamespaces(parsed.tree)]
             reloaded == ReloadIfChanged(deps, last_mod, mtime, locked, content)
             pass == SuppressionPass(reloaded.dependencies, normalized)
             explained == ExplainLoop(pass.errors, context, 1, <<>>)
         IN  [result |->
                  IF pass.raised \/ explained.raised
                  THEN Raised("TypeError")
                  ELSE DiagnosticsResult(PyNone, explained.errors),
              dependencies |-> reloaded.dependencies,
              last_modified |-> reloaded.last_modified,
              filter_calls |-> 1,
              explainer_calls |-> IF pass.raised THEN <<>> ELSE explained.calls]

(***************************************************************************)
(* Inputs.                                                                 *)
(***************************************************************************)
MaxReport == 2

ConfigA == JsonDict(("BR-CO-15" :> ChildList(<<Str("UBL-CR-001")>>)))

\* a map that lists BR-CO-15 among its own children, and a chain
ConfigB ==
    JsonDict(("BR-CO-15" :> ChildList(<<Str("BR-CO-15"), Str("BR-CO-16")>>))
             @@ ("BR-CO-16" :> ChildList(<<Str("UBL-CR-001")>>)))

ConfigEmpty == JsonDict(<<>>)

\* entries that fail the schema: a child that is no string, a child list
\* that is no list
ConfigSloppy ==
    JsonDict(("BR-CO-15" :> ChildList(<<PyInt, Str("UBL-CR-001")>>))
             @@ ("BR-CO-16" :> NotAList))

ValidConfigs == {ConfigA, ConfigB, ConfigEmpty}

FileValues == ValidConfigs \cup {ConfigSloppy, JsonList, NotJson}

RawIds == {Absent, Str("BR-CO-15"), Str("UBL-CR-001"), PyList("BR-CO-15")}

RawMessages == {Absent, Str("Totals mismatch")}

RawSeverities == {Absent, Str("Fatal"), Str("warning"), Str("critical"), PyInt}

RawLocations == {Absent, PyNone, Str("//Total"), PyInt}

RawExtras == {Absent, Str("x")}

RawItems ==
    [id : RawIds, message : RawMessages, severity : RawSeverities,
     location : RawLocations, extra : RawExtras]

\* the findings that reports of several findings are made of
ReportItems ==
    {it \in RawItems : /\ it.severity \in {Absent, Str("Fatal")}
                       /\ it.location = Absent
                       /\ it.extra = Absent}

RECURSIVE SeqsUpTo(_, _)
SeqsUpTo(S, n) ==
    IF n = 0 THEN {<<>>}
    ELSE SeqsUpTo(S, n - 1) \cup
         {Append(q, x) : q \in {r \in SeqsUpTo(S, n - 1) : Len(r) = n - 1}, x \in S}

Reports == {<<it>> : it \in RawItems} \cup SeqsUpTo(ReportItems, MaxReport)

Elem(name, parent, line, text, currencyID) ==
    [name |-> name, parent |-> parent, line |-> line, text |-> text,
     currencyID |-> currencyID]

BadBytes == [wellformed |-> FALSE, style |-> "none", root |-> "", elems |-> <<>>]

InvoiceDoc(style, exclusive, tax, payable) ==
    [wellformed |-> TRUE, style |-> style, root |-> "Invoice",
     elems |-> <<Elem("CustomizationID", "Invoice", 0, Str("urn:cen.eu:en16931:2017"), ""),
                 Elem("DocumentCurrencyCode", "Invoice", 0, Str("EUR"), ""),
                 Elem("TaxAmount", "TaxTotal", 0, tax, "EUR"),
                 Elem("TaxExclusiveAmount", "LegalMonetaryTotal", 0, exclusive, "EUR"),
                 Elem("PayableAmount", "LegalMonetaryTotal", 0, payable, "USD")>>]

PipelineDocs ==
    {BadBytes,
     InvoiceDoc("prefixed", Str("100.00"), Str("20.00"), Str("119.00")),
     InvoiceDoc("none", Str("100.00"), Str("20.00"), Str("120.00"))}

\* the filter and the configuration file at the time of a request: the map
\* loaded earlier, the time recorded then, and the file as it is now
PipelineEnvs ==
    {[deps |-> ValidateConfig(ConfigA.entries), last_mod |-> 1, mtime |-> 1,
      file |-> ConfigA, locked |-> FALSE],
     [deps |-> <<>>, last_mod |-> 1, mtime |-> 1, file |-> ConfigEmpty, locked |-> FALSE],
     [deps |-> ValidateConfig(ConfigA.entries), last_mod |-> 1, mtime |-> 2,
      file |-> ConfigB, locked |-> FALSE],
     [deps |-> ValidateConfig(ConfigA.entries), last_mod |-> 1, mtime |-> 2,
      file |-> ConfigB, locked |-> TRUE],
     [deps |-> ValidateConfig(ConfigA.entries), last_mod |-> 1, mtime |-> 2,
      file |-> NotJson, locked |-> FALSE]}

MaxBatch == 2

MaxApplies == 3

MaxMtime == 3

BatchIds == {"BR-CO-15", "BR-CO-16", "UBL-CR-001"}

BatchItems ==
    [id : {Str(i) : i \in BatchIds}, message : {Str("m")}, location : {PyNone},
     severity : {"error"}, suppressed : BOOLEAN, humanized_message : {PyNone}]

Batches == SeqsUpTo(BatchItems, MaxBatch)

(***************************************************************************)
(* State.                                                                  *)
(***************************************************************************)
VARIABLES
    raw_report,         \* run: the raw findings of the request
    xml_bytes,          \* run: the document of the request
    run_pc,             \* run: "start" before the call, "done" after it
    normalized_errors,  \* run: the list built by the normalization loop
    result,             \* run: what the call returned, or that it raised
    filter_calls,       \* run: calls of DependencyFilter.apply
    explainer_calls,    \* run: ids handed to an explainer, in order
    ex_cls,             \* explain: the rule id of the explainer class
    ex_error,           \* explain: the finding handed to explain
    ex_context,         \* explain: the context handed to explain
    ex_pc,              \* explain: "start" before the call, "done" after it
    dependencies,       \* DependencyFilter.dependencies
    last_modified,      \* DependencyFilter._last_modified
    inode_content,      \* file system: content of each file
    inode_mtime,        \* file system: modification time of each file
    config_inode,       \* file system: the file config/dependencies.json names
    ex_lock,            \* file system: the exclusive flocks held, [owner, inode]
    errors,             \* apply, validate_file: the list of findings the caller holds
    applies,            \* apply: calls of apply on the batch so far
    errors_before,      \* apply: the batch as it was before the last call
    deps_used,          \* apply: the active map during the last call
    prev_deps,          \* apply: the active map during the call before it
    req,                \* apply on threads: the frame of each request
    wpc,                \* safe_update_dependencies: position of each writer
    wcfg,               \* safe_update_dependencies: new_config of each writer
    woff,               \* safe_update_dependencies: parts each writer has written
    now,                \* file system: the clock that stamps writes
    written,            \* file system: the values some file held completely
    rpc,                \* apply, stepwise: position of the reader
    rst,                \* _atomic_read_config: attempt, retry_delay, sleeps, data
    rinode,             \* _atomic_read_config: the file the reader has open
    rcontent,           \* _atomic_read_config: what f.read() returned last
    deps_before,        \* reload_if_changed: the active map when the call began
    reload_outcome,     \* reload_if_changed: how the last call ended
    fn,                 \* response shaping: the function that is called
    fn_args,            \* response shaping: the arguments of the call
    fn_pc,              \* response shaping: "start" before the call, "done" after it
    fn_result,          \* response shaping: what the call returned, or that it raised
    stages              \* validate_file: the calls made so far, in order

IsLocked(inode) == \E l \in ex_lock : l.inode = inode

explVars == <<ex_cls, ex_error, ex_context, ex_pc>>

callVars == <<fn, fn_args, fn_pc, fn_result, stages>>

pipeVars ==
    <<raw_report, xml_bytes, run_pc, normalized_errors, result, filter_calls,
      explainer_calls, explVars, callVars>>

filterVars == <<dependencies, last_modified>>

fsVars == <<inode_content, inode_mtime, config_inode, ex_lock>>

applyVars == <<errors, applies, errors_before, deps_used, prev_deps, req>>

cfgVars ==
    <<wpc, wcfg, woff, now, written, rpc, rst, rinode, rcontent, deps_before, reload_outcome>>

vars == <<pipeVars, filterVars, fsVars, applyVars, cfgVars>>

NoResult == [kind |-> "none", exc |-> "", fatal_error |-> PyNone, processed_errors |-> <<>>]

ExplIdle ==
    /\ ex_cls = ""
    /\ ex_error = <<>>
    /\ ex_context = <<>>
    /\ ex_pc = "idle"

RunIdle ==
    /\ raw_report = <<>>
    /\ xml_bytes = BadBytes
    /\ run_pc = "idle"
    /\ normalized_errors = <<>>
    /\ result = NoResult
    /\ filter_calls = 0
    /\ explainer_calls = <<>>

NoCall == [kind |-> "none", exc |-> "", value |-> <<>>]

CallIdle ==
    /\ fn = ""
    /\ fn_args = <<>>
    /\ fn_pc = "idle"
    /\ fn_result = NoCall
    /\ stages = <<>>

PipeIdle == RunIdle /\ ExplIdle /\ CallIdle

ApplyIdle ==
    /\ errors = <<>>
    /\ applies = 0
    /\ errors_before = <<>>
    /\ deps_used = <<>>
    /\ prev_deps = <<>>
    /\ req = <<>>

NoRead == [read |-> FALSE, content |-> <<>>]

CfgIdle ==
    /\ wpc = <<>>
    /\ wcfg = <<>>
    /\ woff = <<>>
    /\ now = 1
    /\ written = {}
    /\ rpc = "off"
    /\ rst = ReadStart
    /\ rinode = 0
    /\ rcontent = NoRead
    /\ deps_before = <<>>
    /\ reload_outcome = "none"

(***************************************************************************)
(* Spec: one request through DiagnosticsPipeline.run.                      *)
(***************************************************************************)
Init ==
    /\ raw_report \in Reports
    /\ xml_bytes \in PipelineDocs
    /\ run_pc = "start"
    /\ normalized_errors = <<>>
    /\ result = NoResult
    /\ filter_calls = 0
    /\ explainer_calls = <<>>
    /\ \E env \in PipelineEnvs :
          /\ dependencies = env.deps
          /\ last_modified = env.last_mod
          /\ inode_content = (0 :> Serialize(env.file))
          /\ inode_mtime = (0 :> env.mtime)
          /\ config_inode = 0
          /\ ex_lock = IF env.locked THEN {[owner |-> 0, inode |-> 0]} ELSE {}
    /\ ExplIdle
    /\ CallIdle
    /\ ApplyIdle
    /\ CfgIdle

Run ==
    /\ run_pc = "start"
    /\ LET normalized == NormalizeLoop(raw_report, 1, <<>>)
           r == RunAfterNormalization(normalized, xml_bytes, dependencies, last_modified,
                    inode_mtime[config_inode], IsLocked(config_inode),
                    inode_content[config_inode])
       IN  /\ normalized_errors' = normalized
           /\ result' = r.result
           /\ dependencies' = r.dependencies
           /\ last_modified' = r.last_modified
           /\ filter_calls' = r.filter_calls
           /\ explainer_calls' = r.explainer_calls
    /\ run_pc' = "done"
    /\ UNCHANGED <<raw_report, xml_bytes, explVars, callVars, fsVars, applyVars, cfgVars>>

Next == Run

Spec == Init /\ [][Next]_vars

\* C1: the normalized list holds exactly one record for each raw finding
\* that has both id and message, in input order, each record complete, and
\* nothing for a raw finding that lacks id or message.
HasIdAndMessage(raw_item) == raw_item.id # Absent /\ raw_item.message # Absent

ErrorItemKeys == {"id", "message", "location", "severity", "suppressed", "humanized_message"}

C1_NormalizationWhitelist ==
    run_pc = "done" =>
        LET kept == SelectSeq(raw_report, HasIdAndMessage) IN
        /\ Len(normalized_errors) = Len(kept)
        /\ \A k \in 1..Len(kept) :
              /\ normalized_errors[k].id = kept[k].id
              /\ normalized_errors[k].message = kept[k].message
              /\ DOMAIN normalized_errors[k] = ErrorItemKeys

C1_Witness ==
    /\ run_pc = "done"
    /\ Len(raw_report) = 2
    /\ raw_report[1].id # Absent /\ raw_report[1].message = Absent
    /\ HasIdAndMessage(raw_report[2])
    /\ Len(normalized_errors) = 1

\* C7: run never raises: every call returns a DiagnosticsResult.
C7_RunNeverRaises == run_pc = "done" => result.kind = "returned"

\* a finding whose id is a list, in a report on a well-formed document: the
\* call ends with a TypeError
C7_Counterexample ==
    /\ run_pc = "done"
    /\ xml_bytes.wellformed
    /\ raw_report =
          <<[id |-> PyList("BR-CO-15"), message |-> Str("Totals mismatch"),
             severity |-> Absent, location |-> Absent, extra |-> Absent]>>
    /\ result = Raised("TypeError")

\* C8: when the document cannot be parsed, run returns the single fatal
\* finding SYS-XML-001 and no processed findings, and neither the dependency
\* filter nor an explainer is called.
C8_UnparseableShortCircuit ==
    (run_pc = "done" /\ ~xml_bytes.wellformed) =>
        /\ result.kind = "returned"
        /\ result.fatal_error # PyNone
        /\ result.fatal_error.id = Str("SYS-XML-001")
        /\ result.fatal_error.severity = "fatal"
        /\ result.processed_errors = <<>>
        /\ filter_calls = 0
        /\ explainer_calls = <<>>

C8_Witness ==
    /\ run_pc = "done"
    /\ ~xml_bytes.wellformed
    /\ Len(normalized_errors) = 2
    /\ normalized_errors[1].id = Str("BR-CO-15")
    /\ inode_mtime[config_inode] > last_modified
    /\ result.fatal_error # PyNone

\* C9: the record of a raw finding with id and message has exactly the six
\* fields; severity is the lower-cased raw severity when that is fatal, error
\* or warning and error otherwise, location is the raw location when it is a
\* string and null otherwise, suppressed is false, humanized_message is null,
\* and no other key of the raw finding has any influence.
C9_NormalizedRecordShape ==
    run_pc = "done" =>
        LET kept == SelectSeq(raw_report, HasIdAndMessage) IN
        \A k \in 1..Len(normalized_errors) :
            LET raw == kept[k]
                rec == normalized_errors[k]
                valid == raw.severity.t = "str" /\ Lower(raw.severity.v) \in {"fatal", "error", "warning"}
            IN  /\ DOMAIN rec = ErrorItemKeys
                /\ rec.id = raw.id
                /\ rec.message = raw.message
                /\ valid => rec.severity = Lower(raw.severity.v)
                /\ ~valid => rec.severity = "error"
                /\ raw.location.t = "str" => rec.location = raw.location
                /\ raw.location.t # "str" => rec.location = PyNone
                /\ rec.suppressed = FALSE
                /\ rec.humanized_message = PyNone
                /\ \A other \in RawItems :
                      (/\ other.id = raw.id /\ other.message = raw.message
                       /\ other.severity = raw.severity /\ other.location = raw.location)
                      => ErrorItemOf(other) = rec

C9_Witness ==
    /\ run_pc = "done"
    /\ Len(raw_report) = 1
    /\ raw_report[1].severity = Str("Fatal")
    /\ raw_report[1].location = PyInt
    /\ raw_report[1].extra # Absent
    /\ Len(normalized_errors) = 1
    /\ normalized_errors[1].severity = "fatal"
    /\ normalized_errors[1].location = PyNone

(***************************************************************************)
(* SpecApply: a caller applies one DependencyFilter to a batch again and   *)
(* again, while the configuration file is replaced and locked from outside.*)
(***************************************************************************)
InitApply ==
    /\ PipeIdle
    /\ CfgIdle
    /\ errors \in Batches
    /\ applies = 0
    /\ errors_before = <<>>
    /\ deps_used = <<>>
    /\ prev_deps = <<>>
    /\ req = <<>>
    /\ \E f \in FileValues :
          /\ inode_content = (0 :> Serialize(f))
          \* DependencyFilter.__init__: an empty map, then the first load
          /\ dependencies = ReloadIfChanged(<<>>, 0, 1, FALSE, Serialize(f)).dependencies
    /\ inode_mtime = (0 :> 1)
    /\ last_modified = 1
    /\ config_inode = 0
    /\ ex_lock = {}

\* DependencyFilter.apply(errors)
Apply ==
    /\ applies < MaxApplies
    /\ LET reloaded == ReloadIfChanged(dependencies, last_modified,
                           inode_mtime[config_inode], IsLocked(config_inode),
                           inode_content[config_inode])
           pass == SuppressionPass(reloaded.dependencies, errors)
       IN  /\ dependencies' = reloaded.dependencies
           /\ last_modified' = reloaded.last_modified
           /\ errors' = pass.errors
           /\ deps_used' = reloaded.dependencies
    /\ errors_before' = errors
    /\ prev_deps' = deps_used
    /\ UNCHANGED req
    /\ applies' = applies + 1
    /\ UNCHANGED <<pipeVars, fsVars, cfgVars>>

\* another process replaces the configuration file by a complete file
ReplaceConfig ==
    /\ inode_mtime[config_inode] < MaxMtime
    /\ \E f \in FileValues :
          inode_content' = [inode_content EXCEPT ![config_inode] = Serialize(f)]
    /\ inode_mtime' = [inode_mtime EXCEPT ![config_inode] = @ + 1]
    /\ UNCHANGED <<pipeVars, filterVars, applyVars, cfgVars, config_inode, ex_lock>>

\* another process (owner 0) takes an exclusive flock on the configuration file
ExternalLock ==
    /\ ~IsLocked(config_inode)
    /\ ex_lock' = ex_lock \cup {[owner |-> 0, inode |-> config_inode]}
    /\ UNCHANGED <<pipeVars, filterVars, applyVars, cfgVars, inode_content, inode_mtime,
                   config_inode>>

ExternalUnlock ==
    /\ \E l \in ex_lock : l.owner = 0
    /\ ex_lock' = {l \in ex_lock : l.owner # 0}
    /\ UNCHANGED <<pipeVars, filterVars, applyVars, cfgVars, inode_content, inode_mtime,
                   config_inode>>

NextApply == Apply \/ ReplaceConfig \/ ExternalLock \/ ExternalUnlock

SpecApply == InitApply /\ [][NextApply]_vars

Flags(batch) == [i \in DOMAIN batch |-> batch[i].suppressed]

Children(deps, parent_id) == {deps[parent_id][k] : k \in DOMAIN deps[parent_id]}

\* C2: applying the filter twice, the map being the same in both calls,
\* leaves every suppressed flag as the first call left it.
C2_ApplyIdempotent ==
    (applies >= 2 /\ deps_used = prev_deps) => Flags(errors) = Flags(errors_before)

C2_Witness ==
    /\ applies >= 2
    /\ deps_used = prev_deps
    /\ \E i \in DOMAIN errors :
          /\ errors[i].suppressed
          /\ errors[i].id.v \in ChildrenToSuppress(deps_used, PresentIds(errors))
    /\ \E i \in DOMAIN errors : ~errors[i].suppressed

\* C3: a finding that apply marks as suppressed is the child of a present
\* parent whose id differs from its own, also when the map lists an id among
\* its own children.
C3_NoSelfSuppression ==
    applies >= 1 =>
        \A i \in DOMAIN errors :
            (errors[i].suppressed /\ ~errors_before[i].suppressed) =>
                \E j \in DOMAIN errors :
                    /\ errors[j].id # errors[i].id
                    /\ errors[j].id.v \in DOMAIN deps_used
                    /\ errors[i].id.v \in Children(deps_used, errors[j].id.v)

C3_Witness ==
    /\ applies >= 1
    /\ "BR-CO-15" \in DOMAIN deps_used
    /\ "BR-CO-15" \in Children(deps_used, "BR-CO-15")
    /\ \E i \in DOMAIN errors : errors[i].id = Str("BR-CO-15") /\ ~errors[i].suppressed
    /\ \E i \in DOMAIN errors : errors[i].suppressed /\ ~errors_before[i].suppressed

\* the findings of the batch that name finding i as their child in deps
ParentsOf(deps, batch, i) ==
    {j \in DOMAIN batch : /\ batch[j].id # batch[i].id
                          /\ batch[j].id.v \in DOMAIN deps
                          /\ batch[i].id.v \in Children(deps, batch[j].id.v)}

\* C22: after apply a finding is suppressed exactly if it was suppressed
\* before or the batch holds a finding, suppressed or not, with another id
\* whose children in the active map include its id; no other field changes,
\* no flag goes from true to false, and the findings and their order stay.
C22_ApplyAlgorithm ==
    applies >= 1 =>
        /\ Len(errors) = Len(errors_before)
        /\ \A i \in DOMAIN errors :
              /\ [errors[i] EXCEPT !.suppressed = errors_before[i].suppressed] = errors_before[i]
              /\ errors_before[i].suppressed => errors[i].suppressed
              /\ errors[i].suppressed <=>
                     (errors_before[i].suppressed \/ ParentsOf(deps_used, errors_before, i) # {})

\* a finding becomes suppressed whose only parent in the batch was itself
\* suppressed before the call
C22_Witness ==
    /\ applies >= 1
    /\ Len(errors) = 2
    /\ \E i \in DOMAIN errors :
          /\ errors[i].suppressed
          /\ ~errors_before[i].suppressed
          /\ ParentsOf(deps_used, errors_before, i) # {}
          /\ \A j \in ParentsOf(deps_used, errors_before, i) : errors_before[j].suppressed

(***************************************************************************)
(* SpecReload: requests keep calling apply on one DependencyFilter while   *)
(* the configuration file is replaced and locked from outside.  applies    *)
(* counts the calls up to MaxApplies and stays there.                      *)
(***************************************************************************)
InitReload ==
    /\ PipeIdle
    /\ CfgIdle
    /\ errors \in SeqsUpTo(BatchItems, 1)
    /\ applies = 0
    /\ errors_before = <<>>
    /\ deps_used = <<>>
    /\ prev_deps = <<>>
    /\ req = <<>>
    /\ \E f \in FileValues :
          /\ inode_content = (0 :> Serialize(f))
          /\ dependencies = ReloadIfChanged(<<>>, 0, 1, FALSE, Serialize(f)).dependencies
    /\ inode_mtime = (0 :> 1)
    /\ last_modified = 1
    /\ config_inode = 0
    /\ ex_lock = {}

\* DependencyFilter.apply(errors), called by one request after another
ApplyRequest ==
    /\ LET reloaded == ReloadIfChanged(dependencies, last_modified,
                           inode_mtime[config_inode], IsLocked(config_inode),
                           inode_content[config_inode])
           pass == SuppressionPass(reloaded.dependencies, errors)
       IN  /\ dependencies' = reloaded.dependencies
           /\ last_modified' = reloaded.last_modified
           /\ errors' = pass.errors
           /\ deps_used' = reloaded.dependencies
    /\ errors_before' = errors
    /\ prev_deps' = deps_used
    /\ UNCHANGED req
    /\ applies' = IF applies < MaxApplies THEN applies + 1 ELSE applies
    /\ UNCHANGED <<pipeVars, fsVars, cfgVars>>

NextReload == ApplyRequest \/ ReplaceConfig \/ ExternalLock \/ ExternalUnlock

\* requests keep coming: apply is called again and again
SpecReload == InitReload /\ [][NextReload]_vars /\ WF_vars(ApplyRequest)

\* the configuration file holds f and no process holds a lock on it
FileSettled(f) == inode_content[config_inode] = Serialize(f) /\ ~IsLocked(config_inode)

\* C24: when the configuration file has been replaced by a valid file and
\* from then on stays unchanged and unlocked, the active map becomes the
\* validated content of that file after some later call of apply and stays
\* so, also when the first reload after the change failed.
C24_HotReloadEventually ==
    \A f \in ValidConfigs :
        <>[]FileSettled(f) => <>[](dependencies = ValidateConfig(f.entries))

\* the file was replaced by ConfigB while it was locked, an apply tried to
\* reload and gave up; now the file is unlocked, its time is the recorded
\* one and the active map is not the content of the file
C24_Counterexample ==
    /\ applies >= 1
    /\ FileSettled(ConfigB)
    /\ inode_mtime[config_inode] > 1
    /\ last_modified = inode_mtime[config_inode]
    /\ dependencies # ValidateConfig(ConfigB.entries)

\* the file was replaced by ConfigB and an apply has loaded it
C24_WitnessReloaded ==
    /\ applies >= 1
    /\ FileSettled(ConfigB)
    /\ inode_mtime[config_inode] > 1
    /\ last_modified = inode_mtime[config_inode]
    /\ dependencies = ValidateConfig(ConfigB.entries)
    /\ prev_deps # deps_used

(***************************************************************************)
(* SpecShared: requests on threads call apply on one DependencyFilter,     *)
(* each on its own batch, while the configuration file is replaced.  A     *)
(* step of a request is one read of self.dependencies (dependency_filter.py*)
(* 163-182); reload_if_changed is one step, its last statement being the   *)
(* store of the new map.  A frame holds the locals of apply and, in seen,  *)
(* the maps the call has read.                                             *)
(***************************************************************************)
NumRequests == 2

Requests == 1..NumRequests

RequestBatches ==
    SeqsUpTo({item \in BatchItems : ~item.suppressed}, MaxBatch)

Frame(batch) ==
    [pc |-> "start", errors |-> batch, batch |-> batch, todo |-> {}, parent_id |-> "",
     children_to_suppress |-> {}, seen |-> {}, raised |-> FALSE]

InitShared ==
    /\ PipeIdle
    /\ CfgIdle
    /\ errors = <<>>
    /\ applies = 0
    /\ errors_before = <<>>
    /\ deps_used = <<>>
    /\ prev_deps = <<>>
    /\ req \in [Requests -> {Frame(batch) : batch \in RequestBatches}]
    /\ inode_content = (0 :> Serialize(ConfigA))
    /\ dependencies = ValidateConfig(ConfigA.entries)
    /\ inode_mtime = (0 :> 1)
    /\ last_modified = 1
    /\ config_inode = 0
    /\ ex_lock = {}

\* line 161: self.reload_if_changed()
T_Reload(t) ==
    /\ req[t].pc = "start"
    /\ LET reloaded == ReloadIfChanged(dependencies, last_modified,
                           inode_mtime[config_inode], IsLocked(config_inode),
                           inode_content[config_inode])
       IN  /\ dependencies' = reloaded.dependencies
           /\ last_modified' = reloaded.last_modified
    /\ req' = [req EXCEPT ![t].pc = "empty"]
    /\ UNCHANGED <<pipeVars, fsVars, errors, applies, errors_before, deps_used, prev_deps,
                   cfgVars>>

\* lines 163-167: `if not self.dependencies: return`, then the present ids
T_Empty(t) ==
    /\ req[t].pc = "empty"
    /\ req' = [req EXCEPT ![t].seen = @ \cup {dependencies},
                          ![t].todo = PresentIds(req[t].errors),
                          ![t].pc = IF DOMAIN dependencies = {} THEN "done" ELSE "loop"]
    /\ UNCHANGED <<pipeVars, filterVars, fsVars, errors, applies, errors_before, deps_used,
                   prev_deps, cfgVars>>

\* lines 172-173: the next parent_id of the set, `if parent_id in self.dependencies`
T_In(t) ==
    /\ req[t].pc = "loop"
    /\ \E parent_id \in req[t].todo :
          req' = [req EXCEPT ![t].seen = @ \cup {dependencies},
                             ![t].todo = @ \ {parent_id},
                             ![t].parent_id = parent_id.v,
                             ![t].pc = IF parent_id.v \in DOMAIN dependencies
                                       THEN "children"
                                       ELSE "loop"]
    /\ UNCHANGED <<pipeVars, filterVars, fsVars, errors, applies, errors_before, deps_used,
                   prev_deps, cfgVars>>

\* lines 174-177: `for child_id in self.dependencies[parent_id]`; KeyError
\* when the map that is active now has no such key
T_Children(t) ==
    /\ req[t].pc = "children"
    /\ IF req[t].parent_id \in DOMAIN dependencies
       THEN req' = [req EXCEPT
                       ![t].seen = @ \cup {dependencies},
                       ![t].children_to_suppress =
                           @ \cup {c \in Children(dependencies, req[t].parent_id) :
                                      KeepsChild(c, req[t].parent_id)},
                       ![t].pc = "loop"]
       ELSE req' = [req EXCEPT ![t].seen = @ \cup {dependencies},
                               ![t].raised = TRUE,
                               ![t].pc = "done"]
    /\ UNCHANGED <<pipeVars, filterVars, fsVars, errors, applies, errors_before, deps_used,
                   prev_deps, cfgVars>>

\* lines 180-182: the flags, after the loop over the present ids
T_Mark(t) ==
    /\ req[t].pc = "loop"
    /\ req[t].todo = {}
    /\ req' = [req EXCEPT
                  ![t].errors = [i \in DOMAIN @ |->
                                    MarkSuppressed(@[i], req[t].children_to_suppress)],
                  ![t].pc = "done"]
    /\ UNCHANGED <<pipeVars, filterVars, fsVars, errors, applies, errors_before, deps_used,
                   prev_deps, cfgVars>>

Request(t) == T_Reload(t) \/ T_Empty(t) \/ T_In(t) \/ T_Children(t) \/ T_Mark(t)

NextShared == (\E t \in Requests : Request(t)) \/ ReplaceConfig

SpecShared == InitShared /\ [][NextShared]_vars

\* C25: an apply that runs while another request reloads the map does not
\* raise, and the set of children it suppresses is the one that a single
\* map among those that were active during the call gives for its batch.
C25_SnapshotConsistency ==
    \A t \in Requests :
        req[t].pc = "done" =>
            /\ ~req[t].raised
            /\ \E m \in req[t].seen :
                  /\ req[t].children_to_suppress =
                         IF DOMAIN m = {} THEN {}
                         ELSE ChildrenToSuppress(m, PresentIds(req[t].batch))
                  /\ req[t].errors = SuppressionPass(m, req[t].batch).errors

\* a request found BR-CO-16 missing in the old map and took the children of
\* BR-CO-15 from the new one: its set is that of neither map
C25_Counterexample ==
    \E t \in Requests :
        /\ req[t].pc = "done"
        /\ ~req[t].raised
        /\ Cardinality(req[t].seen) = 2
        /\ \A m \in req[t].seen :
              DOMAIN m # {} /\
              req[t].children_to_suppress # ChildrenToSuppress(m, PresentIds(req[t].batch))

\* a request found its parent in the old map and the new map has no such
\* key when the children are read: KeyError
C25_CounterexampleKeyError ==
    \E t \in Requests : req[t].pc = "done" /\ req[t].raised

\* a request read two maps and its set is that of the new one
C25_WitnessNewMap ==
    \E t \in Requests :
        /\ req[t].pc = "done"
        /\ ~req[t].raised
        /\ Cardinality(req[t].seen) = 2
        /\ req[t].children_to_suppress # {}
        /\ req[t].children_to_suppress = ChildrenToSuppress(dependencies, PresentIds(req[t].batch))

(***************************************************************************)
(* SpecCfg: writers running safe_update_dependencies (safe_config_update.py*)
(* 16-88) and a reader running DependencyFilter.apply step by step, with   *)
(* another process that locks the configuration file.                      *)
(***************************************************************************)
NumWriters == 2

MaxClock == 2

MaxPasses == 2

Writers == 1..NumWriters

\* files: 0 is the first configuration file, w the temporary file of writer w
Inodes == 0..NumWriters

WriterConfigs == {ConfigB, ConfigEmpty, ConfigSloppy}

\* the validation of new_config
ValidNewConfig(new_config) ==
    /\ new_config.kind = "dict"
    /\ \A p \in DOMAIN new_config.entries :
          /\ new_config.entries[p].t = "list"
          /\ \A k \in DOMAIN new_config.entries[p].items :
                IsStr(new_config.entries[p].items[k])

\* variant: the writer opens the configuration file itself for writing
OpenInPlace(temp, current) == current

\* tempfile.NamedTemporaryFile(dir=temp_dir, delete=False): the file the
\* writer writes to is a new file next to the configuration file
OpenForWriting(temp, current) == temp

Target(w) == OpenForWriting(w, config_inode)

CfgBatch ==
    [k \in 1..3 |->
        [id |-> Str(<<"BR-CO-15", "BR-CO-16", "UBL-CR-001">>[k]), message |-> Str("m"),
         location |-> PyNone, severity |-> "error", suppressed |-> FALSE,
         humanized_message |-> PyNone]]

InitCfg ==
    /\ PipeIdle
    /\ errors = CfgBatch
    /\ applies = 0
    /\ errors_before = <<>>
    /\ deps_used = <<>>
    /\ prev_deps = <<>>
    /\ req = <<>>
    /\ inode_content = [i \in Inodes |-> IF i = 0 THEN Serialize(ConfigA) ELSE <<>>]
    /\ inode_mtime = [i \in Inodes |-> IF i = 0 THEN 1 ELSE 0]
    /\ config_inode = 0
    /\ ex_lock = {}
    /\ dependencies = ValidateConfig(ConfigA.entries)
    /\ last_modified = 1
    /\ wpc = [w \in Writers |-> "idle"]
    /\ wcfg = [w \in Writers |-> ConfigEmpty]
    /\ woff = [w \in Writers |-> 0]
    /\ now = 1
    /\ written = {ConfigA}
    /\ rpc = "idle"
    /\ rst = ReadStart
    /\ rinode = 0
    /\ rcontent = NoRead
    /\ deps_before = <<>>
    /\ reload_outcome = "none"

readerVars == <<rpc, rst, rinode, rcontent, deps_before, reload_outcome>>

\* the call: validation, then the temporary file is created
W_Begin(w) ==
    /\ wpc[w] = "idle"
    /\ \E new_config \in WriterConfigs :
          /\ wcfg' = [wcfg EXCEPT ![w] = new_config]
          /\ IF ValidNewConfig(new_config)
             THEN /\ wpc' = [wpc EXCEPT ![w] = "opened"]
                  /\ inode_content' = [inode_content EXCEPT ![Target(w)] = <<>>]
                  /\ inode_mtime' = [inode_mtime EXCEPT ![Target(w)] = now]
             ELSE /\ wpc' = [wpc EXCEPT ![w] = "failed"]
                  /\ UNCHANGED <<inode_content, inode_mtime>>
    /\ UNCHANGED <<pipeVars, filterVars, applyVars, readerVars, config_inode, ex_lock,
                   woff, now, written>>

\* fcntl.flock(temp_file.fileno(), LOCK_EX) waits until the file is free
W_Flock(w) ==
    /\ wpc[w] = "opened"
    /\ ~IsLocked(Target(w))
    /\ ex_lock' = ex_lock \cup {[owner |-> w, inode |-> Target(w)]}
    /\ wpc' = [wpc EXCEPT ![w] = "locked"]
    /\ UNCHANGED <<pipeVars, filterVars, applyVars, readerVars, inode_content, inode_mtime,
                   config_inode, wcfg, woff, now, written>>

\* a hole in a file: the positions a write skips read as zero bytes
Hole == [json |-> NoData, part |-> 0]

\* write(part) at the writer's offset: the file grows when the offset is at
\* or past its end
WriteAt(content, offset, part) ==
    [k \in 1..(IF Len(content) > offset THEN Len(content) ELSE offset + 1) |->
        CASE k = offset + 1 -> part
          [] k <= Len(content) -> content[k]
          [] OTHER -> Hole]

\* json.dump, write, flush, fsync: the text reaches the file piece by piece
W_Write(w) ==
    /\ wpc[w] = "locked"
    /\ inode_content' =
          [inode_content EXCEPT ![Target(w)] =
              WriteAt(@, woff[w], Serialize(wcfg[w])[woff[w] + 1])]
    /\ inode_mtime' = [inode_mtime EXCEPT ![Target(w)] = now]
    /\ woff' = [woff EXCEPT ![w] = @ + 1]
    /\ IF woff'[w] = FileParts
       THEN /\ wpc' = [wpc EXCEPT ![w] = "written"]
            /\ written' = written \cup {wcfg[w]}
       ELSE UNCHANGED <<wpc, written>>
    /\ UNCHANGED <<pipeVars, filterVars, applyVars, readerVars, config_inode, ex_lock,
                   wcfg, now>>

\* the lock is released and the file closed
W_Unlock(w) ==
    /\ wpc[w] = "written"
    /\ ex_lock' = {l \in ex_lock : l.owner # w}
    /\ wpc' = [wpc EXCEPT ![w] = "closed"]
    /\ UNCHANGED <<pipeVars, filterVars, applyVars, readerVars, inode_content, inode_mtime,
                   config_inode, wcfg, woff, now, written>>

\* shutil.move(temp_path, config_path): a rename within one directory
W_Move(w) ==
    /\ wpc[w] = "closed"
    /\ config_inode' = Target(w)
    /\ wpc' = [wpc EXCEPT ![w] = "done"]
    /\ UNCHANGED <<pipeVars, filterVars, applyVars, readerVars, inode_content, inode_mtime,
                   ex_lock, wcfg, woff, now, written>>

\* the clock advances
Tick ==
    /\ now < MaxClock
    /\ now' = now + 1
    /\ UNCHANGED <<pipeVars, filterVars, fsVars, applyVars, readerVars, wpc, wcfg, woff,
                   written>>

\* apply, first half of reload_if_changed: _should_reload_config compares
\* the file's modification time with _last_modified
R_Check ==
    /\ rpc = "idle"
    /\ applies < MaxPasses
    /\ deps_before' = dependencies
    /\ reload_outcome' = "none"
    /\ rpc' = IF ShouldReloadConfig(inode_mtime[config_inode], last_modified)
              THEN "load" ELSE "pass"
    /\ UNCHANGED <<pipeVars, filterVars, fsVars, applyVars, wpc, wcfg, woff, now, written, rst,
                   rinode, rcontent>>

\* _load_dependencies: _last_modified is set before the file is read
R_Load ==
    /\ rpc = "load"
    /\ last_modified' = inode_mtime[config_inode]
    /\ rst' = ReadStart
    /\ rpc' = "open"
    /\ UNCHANGED <<pipeVars, dependencies, fsVars, applyVars, wpc, wcfg, woff, now, written,
                   rinode, rcontent, deps_before, reload_outcome>>

\* _atomic_read_config: open(self._config_path) binds the file the path
\* names at this moment
R_Open ==
    /\ rpc = "open"
    /\ rinode' = config_inode
    /\ rpc' = "read"
    /\ UNCHANGED <<pipeVars, filterVars, fsVars, applyVars, wpc, wcfg, woff, now, written, rst,
                   rcontent, deps_before, reload_outcome>>

\* flock(LOCK_SH | LOCK_NB), f.read(), json.loads, flock(LOCK_UN): the
\* request for the lock returns at once, with EAGAIN when the file is under
\* an exclusive lock
R_Read ==
    /\ rpc = "read"
    /\ rst' = ReadAttempt(rst, IsLocked(rinode), inode_content[rinode])
    /\ rcontent' = IF IsLocked(rinode)
                   THEN rcontent
                   ELSE [read |-> TRUE, content |-> inode_content[rinode]]
    /\ rpc' = IF Len(rst'.sleeps) > Len(rst.sleeps) THEN "sleep" ELSE "commit"
    /\ UNCHANGED <<pipeVars, filterVars, fsVars, applyVars, wpc, wcfg, woff, now, written,
                   rinode, deps_before, reload_outcome>>

\* time.sleep(retry_delay) returns: the next pass of the loop, or its end
R_Wake ==
    /\ rpc = "sleep"
    /\ rpc' = IF rst.status = "done" THEN "commit" ELSE "open"
    /\ UNCHANGED <<pipeVars, filterVars, fsVars, applyVars, wpc, wcfg, woff, now, written, rst,
                   rinode, rcontent, deps_before, reload_outcome>>

\* _load_dependencies after the read: validation and the update of the map
R_Commit ==
    /\ rpc = "commit"
    /\ dependencies' = LoadDependencies(dependencies, rst.data)
    /\ reload_outcome' = CASE rst.data = NoData -> "no_data"
                           [] rst.data.kind # "dict" -> "not_dict"
                           [] OTHER -> "loaded"
    /\ rpc' = "pass"
    /\ UNCHANGED <<pipeVars, last_modified, fsVars, applyVars, wpc, wcfg, woff, now, written,
                   rst, rinode, rcontent, deps_before>>

\* apply after reload_if_changed: the suppression pass over the batch
R_Pass ==
    /\ rpc = "pass"
    /\ errors' = SuppressionPass(dependencies, errors).errors
    /\ deps_used' = dependencies
    /\ applies' = applies + 1
    /\ rpc' = "idle"
    /\ UNCHANGED <<pipeVars, filterVars, fsVars, errors_before, prev_deps, req, wpc, wcfg, woff,
                   now, written, rst, rinode,
                   rcontent, deps_before, reload_outcome>>

Reader == R_Check \/ R_Load \/ R_Open \/ R_Read \/ R_Wake \/ R_Commit \/ R_Pass

Writer(w) == W_Begin(w) \/ W_Flock(w) \/ W_Write(w) \/ W_Unlock(w) \/ W_Move(w)

NextCfg ==
    \/ Reader
    \/ \E w \in Writers : Writer(w)
    \/ ExternalLock
    \/ ExternalUnlock
    \/ Tick

SpecCfg == InitCfg /\ [][NextCfg]_vars

(***************************************************************************)
(* SpecRead: the reader alone, step by step, while another process         *)
(* replaces the configuration file and locks it.                           *)
(***************************************************************************)
InitRead ==
    /\ PipeIdle
    /\ errors = CfgBatch
    /\ applies = 0
    /\ errors_before = <<>>
    /\ deps_used = <<>>
    /\ prev_deps = <<>>
    /\ req = <<>>
    /\ inode_content = (0 :> Serialize(ConfigA))
    /\ inode_mtime = (0 :> 1)
    /\ config_inode = 0
    /\ ex_lock = {}
    /\ dependencies = ValidateConfig(ConfigA.entries)
    /\ last_modified = 1
    /\ wpc = <<>>
    /\ wcfg = <<>>
    /\ woff = <<>>
    /\ now = 1
    /\ written = {}
    /\ rpc = "idle"
    /\ rst = ReadStart
    /\ rinode = 0
    /\ rcontent = NoRead
    /\ deps_before = <<>>
    /\ reload_outcome = "none"

NextRead == Reader \/ ReplaceConfig \/ ExternalLock \/ ExternalUnlock

SpecRead == InitRead /\ [][NextRead]_vars

ReloadFailed == reload_outcome \in {"no_data", "not_dict"}

\* C4: when a reload fails (the lock was contended in every attempt, the
\* text is no JSON, or the root is no object) the active map is the map that
\* was active before the attempt, and the suppression pass that follows uses
\* that map and does not raise.
C4_ReloadFailureKeepsOldMap ==
    ReloadFailed =>
        /\ dependencies = deps_before
        /\ rpc = "pass" => ~SuppressionPass(dependencies, errors).raised
        /\ rpc = "idle" => deps_used = deps_before

\* the lock was contended in all three attempts
C4_Witness ==
    /\ reload_outcome = "no_data"
    /\ rpc = "idle"
    /\ Len(rst.sleeps) = max_retries
    /\ \A k \in DOMAIN rst.sleeps : rst.sleeps[k].contended
    /\ deps_used = ValidateConfig(ConfigA.entries)
    /\ \E i \in DOMAIN errors : errors[i].suppressed

\* the root of the file is a list
C4_WitnessNotDict ==
    /\ reload_outcome = "not_dict"
    /\ rpc = "idle"
    /\ deps_used = ValidateConfig(ConfigA.entries)

\* the text of the file is no JSON
C4_WitnessMalformed ==
    /\ reload_outcome = "no_data"
    /\ rpc = "idle"
    /\ rcontent = [read |-> TRUE, content |-> Serialize(NotJson)]
    /\ \A k \in DOMAIN rst.sleeps : ~rst.sleeps[k].contended

\* C5: whatever a reader obtains from f.read() on the configuration file is
\* the complete text of a configuration that some writer wrote completely,
\* never a part of one and never an empty file.
C5_NoHalfWrittenRead ==
    rcontent.read => \E f \in written : rcontent.content = Serialize(f)

\* the reader has read the file of one writer while the other writer's
\* file holds a part of the text
C5_Witness ==
    /\ rcontent = [read |-> TRUE, content |-> Serialize(ConfigB)]
    /\ \E w \in Writers :
          /\ wpc[w] = "locked"
          /\ woff[w] \in 1..(FileParts - 1)
          /\ Len(inode_content[Target(w)]) = woff[w]
          /\ rinode # Target(w)
          /\ rinode \in Writers

RECURSIVE Pow2(_)
Pow2(n) == IF n = 0 THEN 1 ELSE 2 * Pow2(n - 1)

Contended(sleeps) == SelectSeq(sleeps, LAMBDA sl : sl.contended)

\* C6: the read makes at most three attempts, no step of it waits for a
\* lock, the k-th sleep after a contended attempt lasts 100 ms * 2^(k-1),
\* and after three contended attempts (sleeps of 100, 200 and 400 ms) it ends
\* without data.
C6_BoundedRead ==
    /\ rst.tries <= max_retries
    /\ rst.tries = max_retries => rst.status = "done"
    /\ rpc \in {"open", "read", "sleep"} => ENABLED Reader
    /\ \A k \in DOMAIN Contended(rst.sleeps) :
          Contended(rst.sleeps)[k].delay = retry_delay_ms * Pow2(k - 1)
    /\ Len(Contended(rst.sleeps)) = max_retries =>
          /\ rst.status = "done"
          /\ rst.data = NoData
          /\ [k \in DOMAIN rst.sleeps |-> rst.sleeps[k].delay] = <<100, 200, 400>>

C6_Witness ==
    /\ rpc = "commit"
    /\ rst.tries = max_retries
    /\ Len(Contended(rst.sleeps)) = max_retries
    /\ rst.data = NoData

\* a sleep after EAGAIN, one after a JSONDecodeError, one after EAGAIN
C6_WitnessMixed ==
    /\ Len(rst.sleeps) = max_retries
    /\ rst.sleeps[1].contended
    /\ ~rst.sleeps[2].contended
    /\ rst.sleeps[3].contended

(***************************************************************************)
(* SpecExplain: one call of an explainer's explain on a finding and a      *)
(* context, the context being any object a caller can pass.                *)
(***************************************************************************)
Explainers == REGISTRY \cup {"PEPPOL-EN16931-R051"}

ExplainTexts == {PyNone, Str("  "), Str("abc"), Str("20.00")}

LineShapes == {"none", "vat", "percent"}

\* one invoice line: with its own TaxTotal, with an amount and a tax rate,
\* or no line at all
LineElems(shape, text) ==
    CASE shape = "vat" ->
            <<Elem("InvoiceLine", "Invoice", 1, PyNone, ""),
              Elem("TaxAmount", "TaxTotal", 1, text, "EUR")>>
      [] shape = "percent" ->
            <<Elem("InvoiceLine", "Invoice", 1, PyNone, ""),
              Elem("LineExtensionAmount", "InvoiceLine", 1, Str("100.00"), "EUR"),
              Elem("Percent", "ClassifiedTaxCategory", 1, text, "")>>
      [] OTHER -> <<>>

ExplainDoc(style, text, shape) ==
    [wellformed |-> TRUE, style |-> style, root |-> "Invoice",
     elems |-> <<Elem("CustomizationID", "Invoice", 0, text, ""),
                 Elem("ProfileID", "Invoice", 0, text, ""),
                 Elem("DocumentCurrencyCode", "Invoice", 0, text, ""),
                 Elem("TaxExclusiveAmount", "LegalMonetaryTotal", 0, text, "EUR"),
                 Elem("PayableAmount", "LegalMonetaryTotal", 0, text, "USD")>>
               \o LineElems(shape, text)]

\* a document with a PayableAmount outside LegalMonetaryTotal before the one
\* inside it
ShadowDoc(style, first, second) ==
    [wellformed |-> TRUE, style |-> style, root |-> "Invoice",
     elems |-> <<Elem("PayableAmount", "PrepaidPayment", 0, first, "EUR"),
                 Elem("TaxExclusiveAmount", "LegalMonetaryTotal", 0, Str("100.00"), "EUR"),
                 Elem("PayableAmount", "LegalMonetaryTotal", 0, second, "EUR")>>]

EmptyDoc(style) == [wellformed |-> TRUE, style |-> style, root |-> "Invoice", elems |-> <<>>]

Styles == {"prefixed", "default", "none"}

ExplainDocs ==
    {ExplainDoc(style, text, shape) : style \in Styles, text \in ExplainTexts,
                                      shape \in LineShapes}
    \cup {EmptyDoc(style) : style \in Styles}
    \cup (PipelineDocs \ {BadBytes})
    \cup {InvoiceDoc(style, exclusive, tax, payable) :
             style \in {"prefixed", "none"},
             exclusive \in {PyNone, Str("0.00"), Str("100.00")},
             tax \in {PyNone, Str("0.01"), Str("20.00")},
             payable \in {PyNone, Str("0.01"), Str("119.00"), Str("120.00"), Str("120.01")}}
    \cup {ShadowDoc(style, first, second) :
             style \in Styles,
             first \in {PyNone, Str("  "), Str("119.00")},
             second \in {PyNone, Str("  "), Str("120.00")}}

\* xml_tree: None, a parsed tree, or an object that is no tree
ExplainTrees ==
    {[kind |-> "none", doc |-> BadBytes], [kind |-> "bogus", doc |-> BadBytes]}
    \cup {[kind |-> "tree", doc |-> d] : d \in ExplainDocs}

ExplainContexts ==
    {[kind |-> "bogus", xml_tree |-> [kind |-> "none", doc |-> BadBytes], namespaces |-> {}]}
    \cup [kind : {"context"}, xml_tree : ExplainTrees,
          namespaces : {{}, {"inv"}, {"inv", "cbc", "cac"}}]

ExplainLocations ==
    {PyNone, Str("//cbc:PayableAmount"), Str("//PayableAmount"), Str("//Total"), Str("///")}

InitExplain ==
    /\ RunIdle
    /\ CallIdle
    /\ ApplyIdle
    /\ CfgIdle
    /\ dependencies = <<>>
    /\ last_modified = 0
    /\ inode_content = <<>>
    /\ inode_mtime = <<>>
    /\ config_inode = 0
    /\ ex_lock = {}
    /\ ex_cls \in Explainers
    /\ \E location \in ExplainLocations :
          ex_error = [id |-> Str(ex_cls), message |-> Str("m"), location |-> location,
                      severity |-> "error", suppressed |-> FALSE,
                      humanized_message |-> PyNone]
    /\ ex_context \in ExplainContexts
    /\ ex_pc = "start"

\* explainer.explain(error, context)
ExplainCall ==
    /\ ex_pc = "start"
    /\ ex_error' = Explain(ex_cls, ex_error, ex_context)
    /\ ex_pc' = "done"
    /\ UNCHANGED <<raw_report, xml_bytes, run_pc, normalized_errors, result, filter_calls,
                   explainer_calls, ex_cls, ex_context, callVars, filterVars, fsVars,
                   applyVars, cfgVars>>

NextExplain == ExplainCall

SpecExplain == InitExplain /\ [][NextExplain]_vars

\* C10: after explain has returned, for each of the five explainers and for
\* every finding and context, the finding's humanized_message is a string
\* that is not empty.
C10_ExplainersTotal ==
    ex_pc = "done" =>
        /\ IsStr(ex_error.humanized_message)
        /\ ex_error.humanized_message.v # ""

\* the evidence extraction of BR-CO-16 failed on an undeclared prefix
C10_Witness ==
    /\ ex_pc = "done"
    /\ ex_cls = "BR-CO-16"
    /\ ex_context.kind = "context"
    /\ ex_context.xml_tree.kind = "tree"
    /\ ex_context.namespaces = {}
    /\ ex_error.humanized_message = BrCo16NoEvidence

\* the value of an extracted amount in cents, a missing one counting as 0
CentsOrZero(amount) == IF Truthy(amount) THEN Cents(amount.v) ELSE 0

AbsDiff(a, b) == IF a >= b THEN a - b ELSE b - a

\* C11: BR-CO-15 on amounts that are decimals: with payable and tax-exclusive
\* amount extracted the message is the 'calculation appears correct' variant
\* iff |exclusive + tax - payable| <= 0.01 (a missing tax counting as 0) and
\* the mismatch variant with every extracted value otherwise; with only the
\* payable amount it is the 'could not extract all required amounts' variant,
\* without the payable amount the 'could not extract monetary amounts'
\* message; suppressed stays false.
C11_BrCo15Classification ==
    (/\ ex_pc = "done" /\ ex_cls = "BR-CO-15"
     /\ ex_context.kind = "context" /\ ex_context.xml_tree.kind = "tree") =>
        LET ev == ExtractMonetaryEvidence(ex_context.xml_tree, ex_context.namespaces)
            msg == ex_error.humanized_message
            decimals == /\ IsNumeric(ev.tax_exclusive.v)
                        /\ IsNumeric(ev.payable.v)
                        /\ Truthy(ev.tax_amount) => IsNumeric(ev.tax_amount.v)
            diff == AbsDiff(Cents(ev.tax_exclusive.v) + CentsOrZero(ev.tax_amount),
                            Cents(ev.payable.v))
        IN  /\ ~ex_error.suppressed
            /\ ~Truthy(ev.payable) => msg = BrCo15NoAmounts
            /\ (Truthy(ev.payable) /\ ~Truthy(ev.tax_exclusive)) => msg = BrCo15Incomplete
            /\ (Truthy(ev.payable) /\ Truthy(ev.tax_exclusive) /\ decimals) =>
                  IF diff <= 1
                  THEN msg = BrCo15Correct(ev)
                  ELSE msg = BrCo15Mismatch(ev)

\* exclusive 100.00, tax 20.00, payable 120.01: the difference is 0.01, and
\* the message is the mismatch variant
C11_Counterexample ==
    /\ ex_pc = "done"
    /\ ex_cls = "BR-CO-15"
    /\ ex_context.kind = "context"
    /\ ex_context.namespaces = {"inv", "cbc", "cac"}
    /\ ex_context.xml_tree =
          [kind |-> "tree",
           doc |-> InvoiceDoc("prefixed", Str("100.00"), Str("20.00"), Str("120.01"))]
    /\ ex_error.humanized_message =
          Str("Invoice total calculation error. "
              \o "The Tax Inclusive Amount (BT-112) does not match the sum of Tax Exclusive Amount (BT-109) plus Tax Amount (BT-110). "
              \o "Found: Tax Exclusive Amount (BT-109): 100.00, Tax Amount (BT-110): 20.00, Tax Inclusive Amount (BT-112): 120.01. "
              \o "Please verify the arithmetic calculation of the invoice totals.")

\* exclusive 100.00, tax 20.00, payable 119.00: the mismatch variant
C11_WitnessOffByOne ==
    /\ ex_pc = "done"
    /\ ex_cls = "BR-CO-15"
    /\ ex_context.kind = "context"
    /\ ex_context.namespaces = {"inv", "cbc", "cac"}
    /\ ex_context.xml_tree =
          [kind |-> "tree",
           doc |-> InvoiceDoc("prefixed", Str("100.00"), Str("20.00"), Str("119.00"))]
    /\ ex_error.humanized_message =
          Str("Invoice total calculation error. "
              \o "The Tax Inclusive Amount (BT-112) does not match the sum of Tax Exclusive Amount (BT-109) plus Tax Amount (BT-110). "
              \o "Found: Tax Exclusive Amount (BT-109): 100.00, Tax Amount (BT-110): 20.00, Tax Inclusive Amount (BT-112): 119.00. "
              \o "Please verify the arithmetic calculation of the invoice totals.")
    /\ ~ex_error.suppressed

\* the document with the same elements and texts, its namespaces declared
\* with the prefixes cbc and cac, or as one default namespace
Qualified(tree, style) == [tree EXCEPT !.doc.style = style]

Amounts(evidence) == <<evidence.tax_exclusive, evidence.tax_amount, evidence.payable>>

\* C12: from a document without namespace declarations BR-CO-15 extracts the
\* same payable, tax-exclusive and tax amounts as from the document with the
\* same elements in declared namespaces, and it finds the payable amount of
\* the undeclared document through one of the two local-name queries.
C12_FallbackChainDeterminism ==
    (/\ ex_pc = "done" /\ ex_cls = "BR-CO-15"
     /\ ex_context.kind = "context" /\ ex_context.xml_tree.kind = "tree"
     /\ ex_context.xml_tree.doc.style = "none"
     /\ ex_context.namespaces = GetNamespaces(ex_context.xml_tree)) =>
        LET plain == ExtractMonetaryEvidence(ex_context.xml_tree, ex_context.namespaces)
            prefixed == Qualified(ex_context.xml_tree, "prefixed")
            default == Qualified(ex_context.xml_tree, "default")
            qualified == ExtractMonetaryEvidence(prefixed, GetNamespaces(prefixed))
            qualifiedDefault == ExtractMonetaryEvidence(default, GetNamespaces(default))
        IN  /\ Amounts(plain) = Amounts(qualified)
            /\ Amounts(plain) = Amounts(qualifiedDefault)
            /\ Truthy(plain.payable) => plain.payable_strategy \in {3, 4}
            /\ Truthy(qualified.payable) => qualified.payable_strategy \in {1, 2}
            /\ ex_error.humanized_message = BrCo15Message(qualified)

\* the payable amount inside LegalMonetaryTotal is found behind another one
C12_Witness ==
    /\ ex_pc = "done"
    /\ ex_cls = "BR-CO-15"
    /\ ex_context.kind = "context"
    /\ ex_context.namespaces = {}
    /\ ex_context.xml_tree = [kind |-> "tree",
                              doc |-> ShadowDoc("none", Str("119.00"), Str("120.00"))]
    /\ ExtractMonetaryEvidence(ex_context.xml_tree, {}).payable = Str("120.00")
    /\ ExtractMonetaryEvidence(ex_context.xml_tree, {}).payable_strategy = 3
    /\ ex_error.humanized_message =
          BrCo15Mismatch([tax_exclusive |-> Str("100.00"), tax_amount |-> PyNone,
                          payable |-> Str("120.00")])

(***************************************************************************)
(* Response shaping in main.py: the finding classes of diagnostics/models, *)
(* _deduplicate_errors and _apply_cross_error_suppression.  An object of a *)
(* class is a record over the fields the class declares; reading any other *)
(* attribute raises AttributeError, and a keyword the class does not       *)
(* declare is ignored by the constructor.                                  *)
(***************************************************************************)
\* an int n, as a Python value
Count(n) == [t |-> "int", v |-> n]

\* a dict, as a Python value: its items in insertion order, each [k, x]
Dict(items) == [t |-> "dict", v |-> items]

Item(key, value) == [k |-> key, x |-> value]

IsDict(data) == data.t = "dict"

IsList(data) == data.t = "list"

\* isinstance(v, (int, float)); the model draws no float
IsNumber(data) == data.t = "int"

DictHas(d, key) == \E i \in DOMAIN d.v : d.v[i].k = key

\* d[key]
DictAt(d, key) == d.v[CHOOSE i \in DOMAIN d.v : d.v[i].k = key].x

\* d[key] = value: in place when the key is there, at the end when it is not
DictSet(d, key, value) ==
    IF DictHas(d, key)
    THEN Dict([i \in DOMAIN d.v |-> IF d.v[i].k = key THEN Item(key, value) ELSE d.v[i]])
    ELSE Dict(Append(d.v, Item(key, value)))

HasAttr(obj, name) == name \in DOMAIN obj

\* BaseModel.__init__: the declared fields, from the keywords or the defaults
New(defaults, required, kwargs) ==
    [a \in DOMAIN defaults \cup required |->
        IF a \in DOMAIN kwargs THEN kwargs[a] ELSE defaults[a]]

ErrorEvidenceDefaults == [fields |-> Dict(<<>>)]

\* fields_set: the declared fields the caller gave (model_fields_set)
ErrorEvidence(kwargs) ==
    [t |-> "ErrorEvidence", v |-> New(ErrorEvidenceDefaults, {}, kwargs),
     fields_set |-> DOMAIN kwargs \cap DOMAIN ErrorEvidenceDefaults]

ErrorAction(kwargs) == New(<<>>, {"summary", "fix", "locations"}, kwargs)

DebugContext(kwargs) == New(<<>>, {"raw_message", "raw_locations"}, kwargs)

ValidationErrorDefaults ==
    [evidence |-> PyNone, occurrence_count |-> PyNone, occurrences |-> PyNone]

ValidationError(kwargs) ==
    New(ValidationErrorDefaults, {"id", "severity", "action", "technical_details"}, kwargs)

\* what a call of one of the functions gives: a value, or an exception
Returned(value) == [kind |-> "returned", exc |-> "", value |-> value]

RaisedError(exc) == [kind |-> "raised", exc |-> exc, value |-> <<>>]

\* the ids of a list of findings, each once, in the order of first occurrence
RECURSIVE GroupIds(_, _)
GroupIds(errs, seen) ==
    IF errs = <<>> THEN seen
    ELSE GroupIds(Tail(errs),
                  IF \E i \in DOMAIN seen : seen[i] = Head(errs).id
                  THEN seen
                  ELSE Append(seen, Head(errs).id))

\* error_groups[error_id]
ErrorGroup(errs, error_id) == SelectSeq(errs, LAMBDA e : e.id = error_id)

\* for loc in ...: if loc and loc not in locations: locations.append(loc)
RECURSIVE UniqueExtend(_, _)
UniqueExtend(locations, more) ==
    IF more = <<>> THEN locations
    ELSE UniqueExtend(IF Head(more) # "" /\ ~\E i \in DOMAIN locations : locations[i] = Head(more)
                      THEN Append(locations, Head(more))
                      ELSE locations,
                      Tail(more))

RECURSIVE CleanedLocationsOf(_, _)
CleanedLocationsOf(group, acc) ==
    IF group = <<>> THEN acc
    ELSE CleanedLocationsOf(Tail(group), UniqueExtend(acc, Head(group).action.locations))

RECURSIVE RawLocationsOf(_, _)
RawLocationsOf(group, acc) ==
    IF group = <<>> THEN acc
    ELSE RawLocationsOf(Tail(group), UniqueExtend(acc, Head(group).technical_details.raw_locations))

\* lines 517-518: currency_counts[currency] = currency_counts.get(currency, 0) + count
RECURSIVE AddCounts(_, _)
AddCounts(counts, items) ==
    IF items = <<>> THEN counts
    ELSE LET currency == Head(items).k
             count == Head(items).x.v
             sofar == IF DictHas(counts, currency) THEN DictAt(counts, currency).v ELSE 0
         IN  AddCounts(DictSet(counts, currency, Count(sofar + count)), Tail(items))

\* lines 514-518: the counts of every member with evidence, summed by currency
RECURSIVE CurrencyCounts(_, _)
CurrencyCounts(group, counts) ==
    IF group = <<>> THEN counts
    ELSE LET err == Head(group)
         IN  CurrencyCounts(Tail(group),
                 IF err.evidence # PyNone /\ IsDict(err.evidence.v.currency_ids_found)
                    /\ err.evidence.v.currency_ids_found.v # <<>>
                 THEN AddCounts(counts, err.evidence.v.currency_ids_found.v)
                 ELSE counts)

\* lines 509-524: the evidence of the merged finding
AggregatedEvidence(group) ==
    LET first_error == group[1]
        evidence_attrs ==
            \A i \in DOMAIN group :
                group[i].evidence # PyNone => HasAttr(group[i].evidence.v, "currency_ids_found")
    IN  IF first_error.evidence = PyNone
        THEN Returned(PyNone)
        ELSE IF ~HasAttr(first_error.evidence.v, "bt5_value") \/ ~evidence_attrs
        THEN RaisedError("AttributeError")
        ELSE LET currency_counts == CurrencyCounts(group, Dict(<<>>))
             IN  Returned(ErrorEvidence(
                     [bt5_value |-> first_error.evidence.v.bt5_value,
                      currency_ids_found |->
                          IF currency_counts.v # <<>>
                          THEN currency_counts
                          ELSE first_error.evidence.v.currency_ids_found,
                      occurrence_count |-> Count(Len(group))]))

\* "{summary} (Repeated {occurrence_count} times)"
Repeated(summary, occurrence_count) ==
    summary \o " (Repeated " \o NatStr(occurrence_count) \o " times)"

\* lines 489-548: the merged finding of one group
DeduplicatedError(error_id, group) ==
    LET occurrence_count == Len(group)
        first_error == group[1]
        aggregated_evidence == AggregatedEvidence(group)
        summary == IF occurrence_count > 1
                   THEN Repeated(first_error.action.summary, occurrence_count)
                   ELSE first_error.action.summary
    IN  IF aggregated_evidence.kind = "raised"
        THEN aggregated_evidence
        ELSE IF ~HasAttr(first_error, "suppressed")
        THEN RaisedError("AttributeError")
        ELSE Returned(ValidationError(
                 [id |-> error_id,
                  severity |-> first_error.severity,
                  action |-> ErrorAction([summary |-> summary,
                                          fix |-> first_error.action.fix,
                                          locations |-> CleanedLocationsOf(group, <<>>)]),
                  evidence |-> aggregated_evidence.value,
                  technical_details |->
                      DebugContext([raw_message |-> first_error.technical_details.raw_message,
                                    raw_locations |-> RawLocationsOf(group, <<>>)]),
                  suppressed |-> first_error.suppressed]))

\* lines 489-557: the loop over the groups; the first exception ends the call
RECURSIVE DeduplicateLoop(_, _, _)
DeduplicateLoop(errs, ids, deduplicated) ==
    IF ids = <<>> THEN Returned(deduplicated)
    ELSE LET merged == DeduplicatedError(Head(ids), ErrorGroup(errs, Head(ids)))
         IN  IF merged.kind = "raised"
             THEN merged
             ELSE DeduplicateLoop(errs, Tail(ids), Append(deduplicated, merged.value))

\* _deduplicate_errors(errs, session_id)
DeduplicateErrors(errs) ==
    IF errs = <<>>
    THEN Returned(errs)
    ELSE DeduplicateLoop(errs, GroupIds(errs, <<>>), <<>>)

SuppressedSummary == "Math Error (Suppressed: Likely caused by Currency Mismatch R051)"

\* lines 588-590
SuppressOne(error) ==
    [error EXCEPT !.suppressed = TRUE, !.action.summary = SuppressedSummary]

\* lines 586-591: the loop over the batch; the first exception ends the call
RECURSIVE SuppressionLoop(_, _)
SuppressionLoop(errs, i) ==
    IF i > Len(errs) THEN Returned(errs)
    ELSE IF errs[i].id # "BR-CO-15"
    THEN SuppressionLoop(errs, i + 1)
    ELSE IF ~HasAttr(errs[i], "suppressed")
    THEN RaisedError("AttributeError")
    ELSE IF errs[i].suppressed
    THEN SuppressionLoop(errs, i + 1)
    ELSE SuppressionLoop([errs EXCEPT ![i] = SuppressOne(errs[i])], i + 1)

HasR051(errs) == \E i \in DOMAIN errs : errs[i].id = "PEPPOL-EN16931-R051"

\* _apply_cross_error_suppression(errs, session_id)
ApplyCrossErrorSuppression(errs) ==
    IF errs = <<>> THEN Returned(errs)
    ELSE IF ~HasR051(errs) THEN Returned(errs)
    ELSE SuppressionLoop(errs, 1)

(***************************************************************************)
(* SpecShape: one call of _deduplicate_errors or of                        *)
(* _apply_cross_error_suppression on a list of findings as                 *)
(* convert_flat_to_tiered builds them.                                     *)
(***************************************************************************)
MaxFindings == 2

FindingIds == {"BR-CO-15", "PEPPOL-EN16931-R051", "BR-CO-16"}

FindingSummaries == {"Amounts do not add up", "Currency differs"}

\* convert_flat_to_tiered: evidence only with structured data of R051
FindingEvidence ==
    {PyNone,
     ErrorEvidence([bt5_value |-> Str("MMK"),
                    currency_ids_found |-> Dict(<<Item("EUR", Count(1))>>),
                    occurrence_count |-> Count(1)])}

Findings ==
    {ValidationError(
         [id |-> id, severity |-> severity,
          action |-> ErrorAction([summary |-> summary, fix |-> "Please review",
                                  locations |-> <<"/Invoice[1]">>]),
          evidence |-> evidence,
          technical_details |-> DebugContext([raw_message |-> summary,
                                              raw_locations |-> <<"/Invoice[1]">>]),
          suppressed |-> suppressed]) :
       id \in FindingIds, severity \in {"error", "warning"}, summary \in FindingSummaries,
       evidence \in FindingEvidence, suppressed \in BOOLEAN}

FindingLists == SeqsUpTo(Findings, MaxFindings)

InitShape ==
    /\ RunIdle
    /\ ExplIdle
    /\ ApplyIdle
    /\ CfgIdle
    /\ dependencies = <<>>
    /\ last_modified = 0
    /\ inode_content = <<>>
    /\ inode_mtime = <<>>
    /\ config_inode = 0
    /\ ex_lock = {}
    /\ fn \in {"_deduplicate_errors", "_apply_cross_error_suppression"}
    /\ fn_args \in [errors : FindingLists]
    /\ fn_pc = "start"
    /\ fn_result = NoCall
    /\ stages = <<>>

Deduplicate ==
    /\ fn = "_deduplicate_errors"
    /\ fn_pc = "start"
    /\ fn_result' = DeduplicateErrors(fn_args.errors)
    /\ fn_pc' = "done"
    /\ UNCHANGED <<raw_report, xml_bytes, run_pc, normalized_errors, result, filter_calls,
                   explainer_calls, explVars, fn, fn_args, stages, filterVars, fsVars, applyVars,
                   cfgVars>>

CrossSuppress ==
    /\ fn = "_apply_cross_error_suppression"
    /\ fn_pc = "start"
    /\ fn_result' = ApplyCrossErrorSuppression(fn_args.errors)
    /\ fn_pc' = "done"
    /\ UNCHANGED <<raw_report, xml_bytes, run_pc, normalized_errors, result, filter_calls,
                   explainer_calls, explVars, fn, fn_args, stages, filterVars, fsVars, applyVars,
                   cfgVars>>

NextShape == Deduplicate \/ CrossSuppress

SpecShape == InitShape /\ [][NextShape]_vars

\* the grouping key the merged records are to be distinct on
GroupKey(e) == <<e.id, e.severity, e.action.summary>>

\* C13: after _deduplicate_errors the output holds one record for each
\* distinct (id, severity, summary) of the input, so that two findings are
\* merged iff they agree on all three, and findings with the same id but a
\* different summary or severity stay separate records.
C13_DedupGroupingKey ==
    (fn = "_deduplicate_errors" /\ fn_pc = "done") =>
        /\ fn_result.kind = "returned"
        /\ Len(fn_result.value) =
               Cardinality({GroupKey(fn_args.errors[i]) : i \in DOMAIN fn_args.errors})

\* two findings with the same id and different summaries: no two records
C13_Counterexample ==
    /\ fn = "_deduplicate_errors"
    /\ fn_pc = "done"
    /\ Len(fn_args.errors) = 2
    /\ fn_args.errors[1].id = fn_args.errors[2].id
    /\ fn_args.errors[1].action.summary # fn_args.errors[2].action.summary
    /\ fn_args.errors[1].evidence = PyNone
    /\ fn_result = RaisedError("AttributeError")

\* C15: after _deduplicate_errors every record of the output reports an
\* occurrence count equal to the number of input findings merged into it,
\* whatever the members carried and with or without evidence.
C15_OccurrenceCount ==
    (fn = "_deduplicate_errors" /\ fn_pc = "done") =>
        /\ fn_result.kind = "returned"
        /\ \A k \in DOMAIN fn_result.value :
              fn_result.value[k].occurrence_count =
                  Count(Len(ErrorGroup(fn_args.errors, fn_result.value[k].id)))

\* one finding that carries evidence: no record, and no count of 1
C15_Counterexample ==
    /\ fn = "_deduplicate_errors"
    /\ fn_pc = "done"
    /\ Len(fn_args.errors) = 1
    /\ fn_args.errors[1].evidence # PyNone
    /\ fn_result = RaisedError("AttributeError")

IsR051(e) == e.id = "PEPPOL-EN16931-R051"

IsBrCo15(e) == e.id = "BR-CO-15"

\* C19: after _apply_cross_error_suppression on a batch that holds an R051
\* finding, every BR-CO-15 finding is suppressed and its summary names the
\* currency mismatch R051 as the likely cause, whether or not it was
\* suppressed before, and every other finding is as it was; a batch without
\* an R051 finding is returned as it was.
C19_CascadeSuppression ==
    (fn = "_apply_cross_error_suppression" /\ fn_pc = "done") =>
        LET before == fn_args.errors
            after == fn_result.value
        IN  /\ fn_result.kind = "returned"
            /\ Len(after) = Len(before)
            /\ \A i \in DOMAIN before :
                  IF HasR051(before) /\ IsBrCo15(before[i])
                  THEN /\ after[i].suppressed
                       /\ after[i].action.summary = SuppressedSummary
                       /\ [a \in DOMAIN after[i] \ {"suppressed", "action"} |-> after[i][a]]
                              = [a \in DOMAIN before[i] \ {"suppressed", "action"} |-> before[i][a]]
                  ELSE after[i] = before[i]

\* a currency mismatch followed by a totals mismatch: the call raises
C19_Counterexample ==
    /\ fn = "_apply_cross_error_suppression"
    /\ fn_pc = "done"
    /\ Len(fn_args.errors) = 2
    /\ IsR051(fn_args.errors[1])
    /\ IsBrCo15(fn_args.errors[2])
    /\ fn_result = RaisedError("AttributeError")

\* without a currency mismatch the batch comes back as it was
C19_WitnessNoR051 ==
    /\ fn = "_apply_cross_error_suppression"
    /\ fn_pc = "done"
    /\ Len(fn_args.errors) = 2
    /\ IsBrCo15(fn_args.errors[1])
    /\ ~HasR051(fn_args.errors)
    /\ fn_result = Returned(fn_args.errors)

(***************************************************************************)
(* diagnostics/message_catalog.py: the titles and fixes of SHORT mode.  A  *)
(* text is a string; CharAt(s, i) is its i-th character.                   *)
(***************************************************************************)
ERROR_CATALOG ==
    [x \in {"PEPPOL-EN16931-R051", "BR-CO-15", "BR-CO-16", "PEPPOL-EN16931-R001", "UBL-CR-001"} |->
        CASE x = "PEPPOL-EN16931-R051" ->
                 [title |-> "Currency mismatch: BT-5 vs currencyID",
                  fix |-> "Ensure all currencyID attributes match BT-5."]
          [] x = "BR-CO-15" ->
                 [title |-> "Totals mismatch: BT-112 vs BT-109 + BT-110",
                  fix |-> "Ensure BT-112 equals BT-109 plus BT-110."]
          [] x = "BR-CO-16" ->
                 [title |-> "Tax sum mismatch in line items",
                  fix |-> "Verify tax amounts sum correctly across all line items."]
          [] x = "PEPPOL-EN16931-R001" ->
                 [title |-> "Missing mandatory business term",
                  fix |-> "Add the required field according to Peppol BIS 3.0."]
          [] x = "UBL-CR-001" ->
                 [title |-> "Invalid code value",
                  fix |-> "Use a valid code from the specified code list."]]

CharAt(s, i) == SubSeq(s, i, i)

\* the characters str.split() and str.strip() take as white space
IsSpace(c) == c \in {" ", "\n", "\t"}

\* the least member of a set of positions that is not empty
First(positions) == CHOOSE p \in positions : \A q \in positions : p <= q

\* the greatest member of a set of positions that is not empty
Last(positions) == CHOOSE p \in positions : \A q \in positions : q <= p

\* the first position from i on that holds no white space, Len(s) + 1 if none
SkipSpace(s, i) ==
    LET positions == {p \in i..Len(s) : ~IsSpace(CharAt(s, p))}
    IN  IF positions = {} THEN Len(s) + 1 ELSE First(positions)

\* the first position from i on that holds white space, Len(s) + 1 if none
WordEnd(s, i) ==
    LET positions == {p \in i..Len(s) : IsSpace(CharAt(s, p))}
    IN  IF positions = {} THEN Len(s) + 1 ELSE First(positions)

\* " ".join(s.split())
RECURSIVE JoinWords(_, _, _)
JoinWords(s, i, joined) ==
    LET start == SkipSpace(s, i)
        end == WordEnd(s, start)
    IN  IF start > Len(s) THEN joined
        ELSE JoinWords(s, end,
                       (IF joined = "" THEN "" ELSE joined \o " ") \o SubSeq(s, start, end - 1))

NormalizeSpace(s) == JoinWords(s, 1, "")

\* the position of the first occurrence of delimiter from i on, 0 if none
Find(s, delimiter, i) ==
    LET positions == {p \in i..(Len(s) - Len(delimiter) + 1) :
                         SubSeq(s, p, p + Len(delimiter) - 1) = delimiter}
    IN  IF positions = {} THEN 0 ELSE First(positions)

\* s.split(delimiter)[0], for the first delimiter of the list that s holds
RECURSIVE FirstSegment(_, _)
FirstSegment(normalized, delimiters) ==
    IF delimiters = <<>> THEN normalized
    ELSE IF Find(normalized, Head(delimiters), 1) > 0
    THEN SubSeq(normalized, 1, Find(normalized, Head(delimiters), 1) - 1)
    ELSE FirstSegment(normalized, Tail(delimiters))

\* s[:limit].rfind(' '), as a position: the last blank among the first i, 0 if none
LastBlank(s, i) ==
    LET positions == {p \in 1..i : CharAt(s, p) = " "}
    IN  IF positions = {} THEN 0 ELSE Last(positions)

\* the last position up to i that holds no white space, 0 if none
SkipSpaceBack(s, i) ==
    LET positions == {p \in 1..i : ~IsSpace(CharAt(s, p))}
    IN  IF positions = {} THEN 0 ELSE Last(positions)

\* s.strip()
StripSpace(s) == SubSeq(s, SkipSpace(s, 1), SkipSpaceBack(s, Len(s)))

\* lines 108-115, 153-160: cut at the last blank within the limit, or hard
CutAtWord(first_segment, limit) ==
    IF Len(first_segment) > limit
    THEN LET cutoff == LastBlank(first_segment, limit) - 1
         IN  IF cutoff > 0
             THEN SubSeq(first_segment, 1, cutoff)
             ELSE SubSeq(first_segment, 1, limit)
    ELSE first_segment

title_limit == 70

fix_limit == 120

TitleDelimiters == <<". ", "; ", " - ", ": ", "\n">>

FixDelimiters == <<". ", "; ", "\n">>

\* _generate_fallback_title(summary)
GenerateFallbackTitle(summary) ==
    IF summary = ""
    THEN "Validation error"
    ELSE StripSpace(CutAtWord(FirstSegment(NormalizeSpace(summary), TitleDelimiters),
                              title_limit))

\* _generate_fallback_fix(fix)
GenerateFallbackFix(fix) ==
    IF fix = ""
    THEN "Review and correct according to Peppol BIS 3.0 specification."
    ELSE StripSpace(CutAtWord(FirstSegment(NormalizeSpace(fix), FixDelimiters), fix_limit))

\* get_title(error_id, fallback_summary)
GetTitle(error_id, fallback_summary) ==
    IF error_id \in DOMAIN ERROR_CATALOG
    THEN ERROR_CATALOG[error_id].title
    ELSE GenerateFallbackTitle(fallback_summary)

\* get_short_fix(error_id, fallback_fix)
GetShortFix(error_id, fallback_fix) ==
    IF error_id \in DOMAIN ERROR_CATALOG
    THEN ERROR_CATALOG[error_id].fix
    ELSE GenerateFallbackFix(fallback_fix)

(***************************************************************************)
(* SpecCatalog: one call of get_title or get_short_fix.                    *)
(***************************************************************************)
MaxFill == 121

\* n letters
RECURSIVE Fill(_)
Fill(n) ==
    IF n = 0 THEN ""
    ELSE IF n % 2 = 0 THEN Fill(n \div 2) \o Fill(n \div 2)
    ELSE Fill(n - 1) \o "x"

FirstFills == {0, 3, 66, 67, 70, 71, 117, 120, MaxFill}

Separators == {"", " ", "  ", ". ", "; ", " - ", ": ", "\n", "...", " ..."}

Texts ==
    {Fill(a) \o s1 \o Fill(b) \o s2 \o Fill(c) :
       a \in FirstFills, s1 \in Separators, b \in {0, 3, 60}, s2 \in Separators, c \in {0, 1}}

CatalogIds == {"BR-CO-15", "PEPPOL-EN16931-R051", "BR-99"}

InitCatalog ==
    /\ RunIdle
    /\ ExplIdle
    /\ ApplyIdle
    /\ CfgIdle
    /\ dependencies = <<>>
    /\ last_modified = 0
    /\ inode_content = <<>>
    /\ inode_mtime = <<>>
    /\ config_inode = 0
    /\ ex_lock = {}
    /\ fn \in {"get_title", "get_short_fix"}
    /\ fn_args \in [error_id : CatalogIds, text : Texts]
    /\ fn_pc = "start"
    /\ fn_result = NoCall
    /\ stages = <<>>

GetTitleCall ==
    /\ fn = "get_title"
    /\ fn_pc = "start"
    /\ fn_result' = Returned(GetTitle(fn_args.error_id, fn_args.text))
    /\ fn_pc' = "done"
    /\ UNCHANGED <<raw_report, xml_bytes, run_pc, normalized_errors, result, filter_calls,
                   explainer_calls, explVars, fn, fn_args, stages, filterVars, fsVars, applyVars,
                   cfgVars>>

GetShortFixCall ==
    /\ fn = "get_short_fix"
    /\ fn_pc = "start"
    /\ fn_result' = Returned(GetShortFix(fn_args.error_id, fn_args.text))
    /\ fn_pc' = "done"
    /\ UNCHANGED <<raw_report, xml_bytes, run_pc, normalized_errors, result, filter_calls,
                   explainer_calls, explVars, fn, fn_args, stages, filterVars, fsVars, applyVars,
                   cfgVars>>

NextCatalog == GetTitleCall \/ GetShortFixCall

SpecCatalog == InitCatalog /\ [][NextCatalog]_vars

EndsInEllipsis(s) == Len(s) >= 3 /\ SubSeq(s, Len(s) - 2, Len(s)) = "..."

\* C16: for every rule id and every text, the title that get_title gives
\* has at most 70 characters, the fix that get_short_fix gives at most 120,
\* and neither ends in the ellipsis '...'.
C16_ShortTruncation ==
    /\ (fn = "get_title" /\ fn_pc = "done") =>
          /\ Len(fn_result.value) <= title_limit
          /\ ~EndsInEllipsis(fn_result.value)
    /\ (fn = "get_short_fix" /\ fn_pc = "done") =>
          /\ Len(fn_result.value) <= fix_limit
          /\ ~EndsInEllipsis(fn_result.value)

\* a summary of 73 characters without blank or delimiter, its characters
\* 68 to 70 an ellipsis: the title is the first 70 characters
C16_Counterexample ==
    /\ fn = "get_title"
    /\ fn_pc = "done"
    /\ fn_args.error_id = "BR-99"
    /\ fn_args.text = Fill(67) \o "..." \o Fill(3)
    /\ fn_result = Returned(Fill(67) \o "...")

\* the part of C16 on lengths alone
C16_LengthsWithinLimits ==
    /\ (fn = "get_title" /\ fn_pc = "done") => Len(fn_result.value) <= title_limit
    /\ (fn = "get_short_fix" /\ fn_pc = "done") => Len(fn_result.value) <= fix_limit

\* a text of 121 letters: both results are cut hard at the limit
C16_WitnessHardCut ==
    /\ fn_pc = "done"
    /\ fn_args.error_id = "BR-99"
    /\ fn_args.text = Fill(MaxFill)
    /\ fn_result.value = Fill(IF fn = "get_title" THEN title_limit ELSE fix_limit)

(***************************************************************************)
(* diagnostics/presentation.py: the SHORT, BALANCED and DETAILED           *)
(* projections of a validation response.  Dicts and lists of the output    *)
(* are Python values.                                                      *)
(***************************************************************************)
TECHNICAL_KEYS ==
    {"technical_details", "debug_log", "raw_locations", "stacktrace", "trace", "paths",
     "raw", "internal", "raw_message"}

\* a member of an Enum class with the given value
EnumMember(value) == [t |-> "enum", v |-> value]

\* str(mode.value) for a mode with a value attribute, str(mode) for any other
ModeStr(mode) ==
    CASE mode.t = "enum" -> mode.v
      [] mode.t = "str" -> mode.v
      [] mode.t = "none" -> "None"
      [] mode.t = "int" -> NatStr(mode.v)

\* _normalize_mode(mode)
NormalizeMode(mode) ==
    IF Lower(ModeStr(mode)) \in {"short", "balanced", "detailed"}
    THEN Returned(Lower(ModeStr(mode)))
    ELSE RaisedError("ValueError")

\* the items of a dict whose keys are not technical keys
PublicItems(items) == SelectSeq(items, LAMBDA item : item.k \notin TECHNICAL_KEYS)

\* variant: the technical keys of the outermost dict alone are removed
RemoveTechnicalKeysShallow(data) ==
    IF IsDict(data) THEN Dict(PublicItems(data.v)) ELSE data

\* _remove_technical_keys(data)
RECURSIVE RemoveTechnicalKeys(_)
RemoveTechnicalKeys(data) ==
    IF IsDict(data)
    THEN Dict([i \in DOMAIN PublicItems(data.v) |->
                  Item(PublicItems(data.v)[i].k, RemoveTechnicalKeys(PublicItems(data.v)[i].x))])
    ELSE IF IsList(data)
    THEN PyList([i \in DOMAIN data.v |-> RemoveTechnicalKeys(data.v[i])])
    ELSE data

\* evidence.model_dump(exclude_none=True, exclude_unset=True)
ModelDump(evidence) ==
    LET names == SelectSeq(<<"fields">>,
                           LAMBDA a : a \in evidence.fields_set /\ evidence.v[a] # PyNone)
    IN  Dict([i \in DOMAIN names |-> Item(names[i], evidence.v[names[i]])])

\* lines 132-137: the dumps of the members' evidence that are not empty
RECURSIVE EvidenceDicts(_)
EvidenceDicts(errs) ==
    IF errs = <<>> THEN <<>>
    ELSE LET error == Head(errs)
         IN  IF error.evidence # PyNone /\ ModelDump(error.evidence).v # <<>>
             THEN <<ModelDump(error.evidence)>> \o EvidenceDicts(Tail(errs))
             ELSE EvidenceDicts(Tail(errs))

\* lines 158-160: summed[k] = summed.get(k, 0) + v for the numbers of one dict
RECURSIVE AddNumbers(_, _)
AddNumbers(summed, items) ==
    IF items = <<>> THEN summed
    ELSE LET sofar == IF DictHas(summed, Head(items).k)
                      THEN DictAt(summed, Head(items).k).v
                      ELSE 0
         IN  AddNumbers(IF IsNumber(Head(items).x)
                        THEN DictSet(summed, Head(items).k, Count(sofar + Head(items).x.v))
                        ELSE summed,
                        Tail(items))

\* lines 155-161: the sums over every dump that holds a dict under key
RECURSIVE Summed(_, _, _)
Summed(evidence_dicts, key, summed) ==
    IF evidence_dicts = <<>> THEN summed
    ELSE LET ev == Head(evidence_dicts)
         IN  Summed(Tail(evidence_dicts), key,
                    IF DictHas(ev, key) /\ IsDict(DictAt(ev, key))
                    THEN AddNumbers(summed, DictAt(ev, key).v)
                    ELSE summed)

\* lines 165-168: the values of every dump that holds a list under key
RECURSIVE AllValues(_, _)
AllValues(evidence_dicts, key) ==
    IF evidence_dicts = <<>> THEN <<>>
    ELSE LET ev == Head(evidence_dicts)
         IN  (IF DictHas(ev, key) /\ IsList(DictAt(ev, key)) THEN DictAt(ev, key).v ELSE <<>>)
             \o AllValues(Tail(evidence_dicts), key)

\* list(dict.fromkeys(all_values))
RECURSIVE FromKeys(_, _)
FromKeys(all_values, unique) ==
    IF all_values = <<>> THEN unique
    ELSE FromKeys(Tail(all_values),
                  IF \E i \in DOMAIN unique : unique[i] = Head(all_values)
                  THEN unique
                  ELSE Append(unique, Head(all_values)))

\* lines 149-170: the value the merged evidence holds under one key
MergedValue(evidence_dicts, key, value) ==
    IF IsDict(value)
    THEN IF value.v # <<>> /\ IsNumber(value.v[1].x)
         THEN Summed(evidence_dicts, key, Dict(<<>>))
         ELSE value
    ELSE IF IsList(value)
    THEN PyList(FromKeys(AllValues(evidence_dicts, key), <<>>))
    ELSE value

\* _aggregate_evidence(errors)
AggregateEvidence(errs) ==
    LET evidence_dicts == EvidenceDicts(errs)
        merged == DictSet(evidence_dicts[1], "occurrence_count", Count(Len(errs)))
        unhashable ==
            \E i \in DOMAIN merged.v :
                /\ IsList(merged.v[i].x)
                /\ \E j \in DOMAIN AllValues(evidence_dicts, merged.v[i].k) :
                      ~Hashable(AllValues(evidence_dicts, merged.v[i].k)[j])
    IN  IF errs = <<>> \/ evidence_dicts = <<>>
        THEN Returned(Dict(<<>>))
        ELSE IF unhashable
        THEN RaisedError("TypeError")
        ELSE Returned(Dict([i \in DOMAIN merged.v |->
                 Item(merged.v[i].k, MergedValue(evidence_dicts, merged.v[i].k, merged.v[i].x))]))

\* the key of a finding: (error.id, error.action.summary, error.action.fix)
ErrorKey(error) == <<error.id, error.action.summary, error.action.fix>>

\* the keys of the groups, each once, in the order of first occurrence
RECURSIVE ErrorKeys(_, _)
ErrorKeys(errs, seen) ==
    IF errs = <<>> THEN seen
    ELSE ErrorKeys(Tail(errs),
                   IF Head(errs).suppressed \/ \E i \in DOMAIN seen : seen[i] = ErrorKey(Head(errs))
                   THEN seen
                   ELSE Append(seen, ErrorKey(Head(errs))))

\* _group_errors(errors): the groups in insertion order, each [key, instances]
GroupErrors(errs) ==
    IF \E i \in DOMAIN errs : ~HasAttr(errs[i], "suppressed")
    THEN RaisedError("AttributeError")
    ELSE LET keys == ErrorKeys(errs, <<>>)
         IN  Returned([g \in DOMAIN keys |->
                 [key |-> keys[g],
                  instances |-> SelectSeq(errs, LAMBDA e : ~e.suppressed /\ ErrorKey(e) = keys[g])]])

locations_sample_size == 3

RECURSIVE AllLocations(_)
AllLocations(errs) ==
    IF errs = <<>> THEN <<>> ELSE Head(errs).action.locations \o AllLocations(Tail(errs))

\* _aggregate_locations(errors)
AggregateLocations(errs) ==
    LET locations == AllLocations(errs)
    IN  IF Len(locations) > locations_sample_size
        THEN SubSeq(locations, 1, locations_sample_size)
        ELSE locations

\* a list of strings, as a Python value
StrList(texts) == PyList([i \in DOMAIN texts |-> Str(texts[i])])

\* item["locations_sample"] = locations, if there are any
LocationsSample(instances) ==
    IF AggregateLocations(instances) # <<>>
    THEN <<Item("locations_sample", StrList(AggregateLocations(instances)))>>
    ELSE <<>>

\* lines 197-211: the entry of one group in SHORT mode
ShortItem(group) ==
    Dict(<<Item("id", Str(group.key[1])),
           Item("title", Str(GetTitle(group.key[1], group.key[2]))),
           Item("fix", Str(GetShortFix(group.key[1], group.key[3]))),
           Item("count", Count(Len(group.instances)))>>
         \o LocationsSample(group.instances))

\* lines 257-262: the evidence of one group in BALANCED mode, merged and then cleaned
CleanedEvidence(merged_evidence) ==
    IF merged_evidence.v # <<>> /\ RemoveTechnicalKeys(merged_evidence).v # <<>>
    THEN <<Item("evidence", RemoveTechnicalKeys(merged_evidence))>>
    ELSE <<>>

\* lines 241-264: the entry of one group in BALANCED mode
BalancedItem(group) ==
    Dict(<<Item("id", Str(group.key[1])),
           Item("summary", Str(group.key[2])),
           Item("fix", Str(group.key[3])),
           Item("count", Count(Len(group.instances)))>>
         \o LocationsSample(group.instances)
         \o CleanedEvidence(AggregateEvidence(group.instances).value))

\* _filter_short(errors)
FilterShort(errs) ==
    LET groups == GroupErrors(errs)
    IN  IF groups.kind = "raised" THEN groups
        ELSE Returned([g \in DOMAIN groups.value |-> ShortItem(groups.value[g])])

\* _filter_balanced(errors)
FilterBalanced(errs) ==
    LET groups == GroupErrors(errs)
    IN  IF groups.kind = "raised" THEN groups
        ELSE IF \E g \in DOMAIN groups.value :
                    AggregateEvidence(groups.value[g].instances).kind = "raised"
        THEN RaisedError("TypeError")
        ELSE Returned([g \in DOMAIN groups.value |-> BalancedItem(groups.value[g])])

\* error.model_dump(exclude_none=False)
DumpError(error) ==
    Dict(<<Item("id", Str(error.id)),
           Item("severity", Str(error.severity)),
           Item("action", Dict(<<Item("summary", Str(error.action.summary)),
                                 Item("fix", Str(error.action.fix)),
                                 Item("locations", StrList(error.action.locations))>>)),
           Item("technical_details",
                Dict(<<Item("raw_message", Str(error.technical_details.raw_message)),
                       Item("raw_locations", StrList(error.technical_details.raw_locations))>>)),
           Item("evidence", IF error.evidence = PyNone
                            THEN PyNone
                            ELSE Dict(<<Item("fields", error.evidence.v.fields)>>)),
           Item("occurrence_count", error.occurrence_count),
           Item("occurrences", error.occurrences)>>)

\* _filter_detailed(errors)
FilterDetailed(errs) == Returned([i \in DOMAIN errs |-> DumpError(errs[i])])

\* ValidationMeta of main.py: three required strings
ValidationMeta(engine, rules_tag, commit) ==
    [t |-> "ValidationMeta",
     v |-> <<Item("engine", Str(engine)), Item("rules_tag", Str(rules_tag)),
             Item("commit", Str(commit))>>]

\* lines 313-325: meta as a dict
MetaDict(meta, mode_str) ==
    IF meta.t = "ValidationMeta"
    THEN Dict(meta.v)
    ELSE IF IsDict(meta)
    THEN IF mode_str \in {"short", "balanced"}
         THEN Dict(SelectSeq(meta.v, LAMBDA item : item.x # PyNone))
         ELSE meta
    ELSE Dict(<<>>)

\* lines 328-338: the envelope
Envelope(mode_str, validation_response, diagnosis) ==
    Dict(<<Item("status", Str(validation_response.status)),
           Item("meta", MetaDict(validation_response.meta, mode_str)),
           Item("diagnosis", PyList(diagnosis))>>
         \o IF mode_str = "detailed" /\ Truthy(validation_response.debug_log)
            THEN <<Item("debug_log", validation_response.debug_log)>>
            ELSE <<>>)

\* apply_mode_filter(mode, validation_response)
ApplyModeFilter(mode, validation_response) ==
    LET mode_str == NormalizeMode(mode)
        diagnosis == CASE mode_str.value = "short" -> FilterShort(validation_response.errors)
                       [] mode_str.value = "balanced" -> FilterBalanced(validation_response.errors)
                       [] OTHER -> FilterDetailed(validation_response.errors)
    IN  IF mode_str.kind = "raised" THEN mode_str
        ELSE IF diagnosis.kind = "raised" THEN diagnosis
        ELSE Returned(Envelope(mode_str.value, validation_response, diagnosis.value))

(***************************************************************************)
(* SpecPresent: one call of apply_mode_filter on a response, of            *)
(* _aggregate_evidence on the findings of one group, or of                 *)
(* _remove_technical_keys on the merged evidence of a group.  The findings *)
(* are built from keywords as the callers give them: built_from keeps the  *)
(* keywords, errors the objects the constructors made of them.             *)
(***************************************************************************)
MaxErrors == 2

MaxGroup == 3

Tally(currency, count) == Dict(<<Item(currency, Count(count))>>)

\* the keywords of ErrorEvidence(...): PyNone stands for `evidence=None`
TieredEvidence ==
    [bt5_value |-> Str("MMK"), currency_ids_found |-> Tally("EUR", 1),
     occurrence_count |-> Count(1)]

EvidenceKeywords ==
    {PyNone,
     TieredEvidence,
     [fields |-> Tally("EUR", 1)],
     [fields |-> Tally("USD", 1)],
     [fields |-> Dict(<<>>)],
     [fields |-> Dict(<<Item("note", Str("checked")), Item("EUR", Count(1))>>)],
     [fields |-> Dict(<<Item("currency_ids_found", Tally("EUR", 1)), Item("raw", Str("dump"))>>)],
     [fields |-> Dict(<<Item("lines", PyList(<<Dict(<<Item("trace", Str("t")),
                                                      Item("EUR", Count(1))>>)>>))>>)]}

EvidenceOf(keywords) == IF keywords = PyNone THEN PyNone ELSE ErrorEvidence(keywords)

\* the keywords of ValidationError(...), as create_test_error and
\* convert_flat_to_tiered give them
FindingKeywords(id, summary, evidence, suppressed) ==
    [id |-> id, severity |-> "error", summary |-> summary, fix |-> "Please review",
     locations |-> <<"/Invoice[1]">>, evidence |-> evidence, suppressed |-> suppressed]

BuildFinding(keywords) ==
    ValidationError(
        [id |-> keywords.id, severity |-> keywords.severity,
         action |-> ErrorAction([summary |-> keywords.summary, fix |-> keywords.fix,
                                 locations |-> keywords.locations]),
         evidence |-> EvidenceOf(keywords.evidence),
         technical_details |-> DebugContext([raw_message |-> "m", raw_locations |-> <<>>]),
         suppressed |-> keywords.suppressed])

BuildFindings(keywords) == [i \in DOMAIN keywords |-> BuildFinding(keywords[i])]

\* the findings of a response
ResponseKeywords ==
    {FindingKeywords(id, summary, evidence, suppressed) :
       id \in {"BR-CO-15", "BR-99"}, summary \in FindingSummaries,
       evidence \in {PyNone, TieredEvidence}, suppressed \in BOOLEAN}

\* the findings of one group: they agree on id, summary and fix
GroupKeywords ==
    {FindingKeywords("PEPPOL-EN16931-R051", "Currency differs", evidence, FALSE) :
       evidence \in EvidenceKeywords}

Modes ==
    {Str("short"), Str("SHORT"), Str("Balanced"), Str("detailed"), Str("DETAILED"),
     Str("full"), Str(""), PyNone, EnumMember("tier0")}

Metas ==
    {ValidationMeta("KoSIT 1.5.0", "release-3.0.18", "abc"),
     Dict(<<Item("engine", Str("KoSIT 1.5.0")), Item("commit", PyNone)>>)}

DebugLogs == {PyNone, Str(""), Str("STDOUT: ok")}

ApplyModeFilterArgs ==
    {[mode |-> mode,
      validation_response |-> [status |-> IF built_from = <<>> THEN "PASSED" ELSE "REJECTED",
                               meta |-> meta,
                               errors |-> BuildFindings(built_from),
                               debug_log |-> debug_log],
      built_from |-> built_from] :
       mode \in Modes, meta \in Metas, debug_log \in DebugLogs,
       built_from \in SeqsUpTo(ResponseKeywords, MaxErrors)}

AggregateEvidenceArgs ==
    {[errors |-> BuildFindings(built_from), built_from |-> built_from] :
       built_from \in SeqsUpTo(GroupKeywords, MaxGroup)}

\* what _filter_balanced hands to _remove_technical_keys: merged evidence
RemoveTechnicalKeysArgs ==
    {[data |-> AggregateEvidence(args.errors).value, built_from |-> args.built_from] :
       args \in {a \in AggregateEvidenceArgs :
                   /\ AggregateEvidence(a.errors).kind = "returned"
                   /\ AggregateEvidence(a.errors).value.v # <<>>}}

InitPresent ==
    /\ RunIdle
    /\ ExplIdle
    /\ ApplyIdle
    /\ CfgIdle
    /\ dependencies = <<>>
    /\ last_modified = 0
    /\ inode_content = <<>>
    /\ inode_mtime = <<>>
    /\ config_inode = 0
    /\ ex_lock = {}
    /\ \/ fn = "apply_mode_filter" /\ fn_args \in ApplyModeFilterArgs
       \/ fn = "_aggregate_evidence" /\ fn_args \in AggregateEvidenceArgs
       \/ fn = "_remove_technical_keys" /\ fn_args \in RemoveTechnicalKeysArgs
    /\ fn_pc = "start"
    /\ fn_result = NoCall
    /\ stages = <<>>

ApplyModeFilterCall ==
    /\ fn = "apply_mode_filter"
    /\ fn_pc = "start"
    /\ fn_result' = ApplyModeFilter(fn_args.mode, fn_args.validation_response)
    /\ fn_pc' = "done"
    /\ UNCHANGED <<raw_report, xml_bytes, run_pc, normalized_errors, result, filter_calls,
                   explainer_calls, explVars, fn, fn_args, stages, filterVars, fsVars, applyVars,
                   cfgVars>>

AggregateEvidenceCall ==
    /\ fn = "_aggregate_evidence"
    /\ fn_pc = "start"
    /\ fn_result' = AggregateEvidence(fn_args.errors)
    /\ fn_pc' = "done"
    /\ UNCHANGED <<raw_report, xml_bytes, run_pc, normalized_errors, result, filter_calls,
                   explainer_calls, explVars, fn, fn_args, stages, filterVars, fsVars, applyVars,
                   cfgVars>>

RemoveTechnicalKeysCall ==
    /\ fn = "_remove_technical_keys"
    /\ fn_pc = "start"
    /\ fn_result' = Returned(RemoveTechnicalKeys(fn_args.data))
    /\ fn_pc' = "done"
    /\ UNCHANGED <<raw_report, xml_bytes, run_pc, normalized_errors, result, filter_calls,
                   explainer_calls, explVars, fn, fn_args, stages, filterVars, fsVars, applyVars,
                   cfgVars>>

NextPresent == ApplyModeFilterCall \/ AggregateEvidenceCall \/ RemoveTechnicalKeysCall

SpecPresent == InitPresent /\ [][NextPresent]_vars

\* the mode of the call, lower-cased, when it is one of the three modes
ModeIs(mode_str) ==
    fn = "apply_mode_filter" /\ fn_pc = "done" /\ Lower(ModeStr(fn_args.mode)) = mode_str

\* the diagnosis list of the envelope
Diagnosis == DictAt(fn_result.value, "diagnosis").v

\* a map with numbers as values
IsTally(data) ==
    IsDict(data) /\ data.v # <<>> /\ \A i \in DOMAIN data.v : IsNumber(data.v[i].x)

\* the evidence fields of the members that are tallies, and the keys in them
TallyFields(built_from) ==
    {field \in {"bt5_value", "currency_ids_found", "occurrence_count", "fields"} :
        \E i \in DOMAIN built_from :
            /\ built_from[i].evidence # PyNone
            /\ field \in DOMAIN built_from[i].evidence
            /\ IsTally(built_from[i].evidence[field])}

RECURSIVE TallySum(_, _, _)
TallySum(built_from, field, key) ==
    IF built_from = <<>> THEN 0
    ELSE LET evidence == Head(built_from).evidence
             here == IF /\ evidence # PyNone
                        /\ field \in DOMAIN evidence
                        /\ IsTally(evidence[field])
                        /\ DictHas(evidence[field], key)
                     THEN DictAt(evidence[field], key).v
                     ELSE 0
         IN  here + TallySum(Tail(built_from), field, key)

\* merged holds, under every tally field, the sums of the members' tallies
HoldsSums(merged, built_from) ==
    \A field \in TallyFields(built_from) :
        \A key \in {"EUR", "USD"} :
            TallySum(built_from, field, key) > 0 =>
                /\ DictHas(merged, field)
                /\ IsDict(DictAt(merged, field))
                /\ DictHas(DictAt(merged, field), key)
                /\ DictAt(DictAt(merged, field), key) = Count(TallySum(built_from, field, key))

\* C14: the evidence merged for a group holds, under every field that is a
\* map of numbers in any member, under each key the sum of that key over all
\* members, whatever the order of the members and whichever member holds the
\* field; and the BALANCED projection of a response returns its entries.
C14_EvidenceMergeSummation ==
    /\ (fn = "_aggregate_evidence" /\ fn_pc = "done") =>
          /\ fn_result.kind = "returned"
          /\ HoldsSums(fn_result.value, fn_args.built_from)
    /\ ModeIs("balanced") => fn_result.kind = "returned"

\* two members that were each built with the tally {"EUR": 1}: the merged
\* evidence is empty
C14_Counterexample ==
    /\ fn = "_aggregate_evidence"
    /\ fn_pc = "done"
    /\ Len(fn_args.built_from) = 2
    /\ \A i \in 1..2 : fn_args.built_from[i].evidence = TieredEvidence
    /\ fn_result = Returned(Dict(<<>>))

\* a first member with an empty map and a second with {"EUR": 1} under the
\* same field: the merged map is empty
C14_CounterexampleOrder ==
    /\ fn = "_aggregate_evidence"
    /\ fn_pc = "done"
    /\ Len(fn_args.built_from) = 2
    /\ fn_args.built_from[1].evidence = [fields |-> Dict(<<>>)]
    /\ fn_args.built_from[2].evidence = [fields |-> Tally("EUR", 1)]
    /\ fn_result = Returned(Dict(<<Item("fields", Dict(<<>>)), Item("occurrence_count", Count(2))>>))

\* three members with {"EUR": 1}, {"USD": 1}, {"EUR": 1} under `fields`
C14_WitnessSummed ==
    /\ fn = "_aggregate_evidence"
    /\ fn_pc = "done"
    /\ Len(fn_args.built_from) = 3
    /\ fn_args.built_from[1].evidence = [fields |-> Tally("EUR", 1)]
    /\ fn_args.built_from[2].evidence = [fields |-> Tally("USD", 1)]
    /\ fn_args.built_from[3].evidence = [fields |-> Tally("EUR", 1)]
    /\ fn_result =
          Returned(Dict(<<Item("fields", Dict(<<Item("EUR", Count(2)), Item("USD", Count(1))>>)),
                          Item("occurrence_count", Count(3))>>))

\* a technical key occurs in data, at any depth of its dicts and lists
RECURSIVE HasTechnicalKey(_)
HasTechnicalKey(data) ==
    IF IsDict(data)
    THEN \E i \in DOMAIN data.v : data.v[i].k \in TECHNICAL_KEYS \/ HasTechnicalKey(data.v[i].x)
    ELSE IF IsList(data)
    THEN \E i \in DOMAIN data.v : HasTechnicalKey(data.v[i])
    ELSE FALSE

Active(built_from) == SelectSeq(built_from, LAMBDA k : ~k.suppressed)

KeywordsKey(k) == <<k.id, k.summary, k.fix>>

\* C18: in DETAILED mode apply_mode_filter gives one entry for each finding
\* of the response, suppressed ones included, in input order; in SHORT and
\* BALANCED mode one entry for each distinct (id, summary, fix) among the
\* findings that are not suppressed, its count the number of those findings.
C18_TierCompleteness ==
    /\ ModeIs("detailed") =>
          /\ fn_result.kind = "returned"
          /\ Len(Diagnosis) = Len(fn_args.built_from)
          /\ \A i \in DOMAIN Diagnosis :
                /\ DictAt(Diagnosis[i], "id") = Str(fn_args.built_from[i].id)
                /\ DictAt(DictAt(Diagnosis[i], "action"), "summary")
                       = Str(fn_args.built_from[i].summary)
    /\ (ModeIs("short") \/ ModeIs("balanced")) =>
          LET active == Active(fn_args.built_from)
          IN  /\ fn_result.kind = "returned"
              /\ Len(Diagnosis) = Cardinality({KeywordsKey(active[i]) : i \in DOMAIN active})
              /\ \A i \in DOMAIN Diagnosis :
                    DictAt(Diagnosis[i], "count") =
                        Count(Len(SelectSeq(active,
                                  LAMBDA k : k.id = DictAt(Diagnosis[i], "id").v)))

\* two identical findings in SHORT mode: no entry with count 2, the call raises
C18_Counterexample ==
    /\ ModeIs("short")
    /\ Len(fn_args.built_from) = 2
    /\ fn_args.built_from[1] = fn_args.built_from[2]
    /\ ~fn_args.built_from[1].suppressed
    /\ fn_result = RaisedError("AttributeError")

\* two identical findings in DETAILED mode: two entries
C18_WitnessDetailed ==
    /\ ModeIs("detailed")
    /\ Len(fn_args.built_from) = 2
    /\ fn_args.built_from[1] = fn_args.built_from[2]
    /\ fn_result.kind = "returned"
    /\ Len(Diagnosis) = 2
    /\ Diagnosis[1] = Diagnosis[2]

\* C20: for a mode whose lower-cased string form is not short, balanced or
\* detailed apply_mode_filter raises and gives no envelope; for the three
\* modes in any letter case it returns an envelope with status, meta and
\* diagnosis, and with debug_log only in DETAILED mode when the debug log of
\* the response is not empty.
C20_InvalidModeRejected ==
    (fn = "apply_mode_filter" /\ fn_pc = "done") =>
        IF Lower(ModeStr(fn_args.mode)) \in {"short", "balanced", "detailed"}
        THEN /\ fn_result.kind = "returned"
             /\ DictHas(fn_result.value, "status")
             /\ DictHas(fn_result.value, "meta")
             /\ DictHas(fn_result.value, "diagnosis")
             /\ DictHas(fn_result.value, "debug_log") <=>
                    (/\ ModeIs("detailed")
                     /\ fn_args.validation_response.debug_log \notin {PyNone, Str("")})
        ELSE fn_result = RaisedError("ValueError")

\* mode SHORT in capitals on a response with one finding: the call raises
\* AttributeError, not an envelope
C20_Counterexample ==
    /\ fn = "apply_mode_filter"
    /\ fn_pc = "done"
    /\ fn_args.mode = Str("SHORT")
    /\ Len(fn_args.built_from) = 1
    /\ fn_result = RaisedError("AttributeError")

\* the enum member with value tier0 is rejected
C20_WitnessRejected ==
    /\ fn = "apply_mode_filter"
    /\ fn_pc = "done"
    /\ fn_args.mode = EnumMember("tier0")
    /\ fn_result = RaisedError("ValueError")

(***************************************************************************)
(* main.py, validate_file on the enriched path, from the end of the report *)
(* parser (line 977) to the response.  errors is the local list: flat      *)
(* dicts from the parser, objects of models.py after the conversion.       *)
(***************************************************************************)
\* clean_xpath on the locations the model draws: namespace-uri() predicates
\* and the prefixes *:, cbc:, cac: are removed
CleanXPath(xpath) ==
    CASE xpath = "/*:Invoice[namespace-uri()='urn:invoice'][1]/cac:LegalMonetaryTotal[1]"
             -> "/Invoice[1]/LegalMonetaryTotal[1]"
      [] xpath = "/Invoice/cbc:DocumentCurrencyCode" -> "/Invoice/DocumentCurrencyCode"
      [] OTHER -> xpath

FixMessage(error_id) ==
    CASE error_id = "PEPPOL-EN16931-R051" ->
             "Make BT-5 (DocumentCurrencyCode) and all currencyID attributes consistent."
      [] error_id = "BR-CO-15" ->
             "Verify that Tax Inclusive Amount (BT-112) = Tax Exclusive Amount (BT-109) + Tax Amount (BT-110)."
      [] OTHER -> "Please review and correct this error according to the Peppol BIS 3.0 specification."

\* convert_flat_to_tiered(flat_error): no explainer of the registry sets
\* structured_data, so evidence is None
ConvertFlatToTiered(flat_error) ==
    LET raw_message == flat_error.message.v
        raw_location == IF IsStr(flat_error.location) THEN flat_error.location.v ELSE ""
        humanized == flat_error.humanized_message
    IN  ValidationError(
            [id |-> flat_error.id.v,
             severity |-> flat_error.severity,
             action |-> ErrorAction(
                 [summary |-> IF Truthy(humanized) THEN humanized.v ELSE raw_message,
                  fix |-> FixMessage(flat_error.id.v),
                  locations |-> IF raw_location # "" THEN <<CleanXPath(raw_location)>> ELSE <<>>]),
             evidence |-> PyNone,
             technical_details |-> DebugContext(
                 [raw_message |-> raw_message,
                  raw_locations |-> IF raw_location # "" THEN <<raw_location>> ELSE <<>>]),
             suppressed |-> flat_error.suppressed])

\* a dict has keys, not attributes: getattr works on the objects of models.py
IsModel(e) == "technical_details" \in DOMAIN e

GetAttrFails(errs, name) ==
    \E i \in DOMAIN errs : ~(IsModel(errs[i]) /\ HasAttr(errs[i], name))

\* lines 988-995: the four keys handed to the pipeline
KositErrors(errs) ==
    [i \in DOMAIN errs |->
        [id |-> errs[i].id, message |-> errs[i].message, location |-> errs[i].location,
         severity |-> Str(errs[i].severity), extra |-> Absent]]

\* lines 1070-1078
ParsingMismatch ==
    [id |-> Str("PARSING_MISMATCH"),
     message |-> Str("The validator rejected the file, but the report could not be parsed."),
     location |-> Str(""),
     severity |-> "fatal",
     humanized_message |-> Str("System Error: The validator rejected this file."),
     suppressed |-> FALSE]

ValidationResponse(status, errs, debug_log) ==
    [status |-> status,
     meta |-> ValidationMeta("KoSIT 1.5.0", "release-3.0.18", "abc"),
     errors |-> errs,
     debug_log |-> debug_log]

\* lines 1093-1097: active findings first, suppressed findings last
ActiveFirst(errs) ==
    SelectSeq(errs, LAMBDA e : ~e.suppressed) \o SelectSeq(errs, LAMBDA e : e.suppressed)

(***************************************************************************)
(* SpecValidate: one request through the enriched path of validate_file.   *)
(* The pre-flight check of validate_file parses with xml.etree, the        *)
(* pipeline with lxml, so a document that SafeXMLLoader rejects can get    *)
(* here.                                                                   *)
(***************************************************************************)
MaxParsed == 2

ParsedIds == {"BR-CO-15", "PEPPOL-EN16931-R051", "BR-99"}

ParsedLocations ==
    {"", "/*:Invoice[namespace-uri()='urn:invoice'][1]/cac:LegalMonetaryTotal[1]"}

\* lines 966-973: what the report parser appends
ParsedItems ==
    {[id |-> Str(id), message |-> Str("Totals mismatch"), location |-> Str(location),
      severity |-> severity, humanized_message |-> PyNone, suppressed |-> FALSE] :
       id \in ParsedIds, location \in ParsedLocations, severity \in Severities}

ValidateEnvs ==
    {[deps |-> ValidateConfig(ConfigA.entries), last_mod |-> 1, mtime |-> 1, file |-> ConfigA],
     [deps |-> <<>>, last_mod |-> 1, mtime |-> 1, file |-> ConfigEmpty]}

InitValidate ==
    /\ fn = "validate_file"
    /\ fn_args \in [returncode : {0, 1}, errors : SeqsUpTo(ParsedItems, MaxParsed)]
    /\ errors = fn_args.errors
    /\ fn_pc = "humanize"
    /\ fn_result = NoCall
    /\ stages = <<>>
    /\ raw_report = <<>>
    /\ xml_bytes \in PipelineDocs
    /\ run_pc = "idle"
    /\ normalized_errors = <<>>
    /\ result = NoResult
    /\ filter_calls = 0
    /\ explainer_calls = <<>>
    /\ \E env \in ValidateEnvs :
          /\ dependencies = env.deps
          /\ last_modified = env.last_mod
          /\ inode_content = (0 :> Serialize(env.file))
          /\ inode_mtime = (0 :> env.mtime)
          /\ config_inode = 0
          /\ ex_lock = {}
    /\ ExplIdle
    /\ applies = 0
    /\ errors_before = <<>>
    /\ deps_used = <<>>
    /\ prev_deps = <<>>
    /\ req = <<>>
    /\ CfgIdle

\* lines 979-1008: the pipeline and the conversion, inside the try block
VF_Humanize ==
    /\ fn = "validate_file"
    /\ fn_pc = "humanize"
    /\ IF errors = <<>>
       THEN /\ fn_pc' = "status"
            /\ UNCHANGED <<errors, stages, raw_report, run_pc, normalized_errors, result,
                           filter_calls, explainer_calls, filterVars>>
       ELSE \E r \in {RunAfterNormalization(NormalizeLoop(KositErrors(errors), 1, <<>>),
                         xml_bytes, dependencies, last_modified, inode_mtime[config_inode],
                         IsLocked(config_inode), inode_content[config_inode])} :
                /\ raw_report' = KositErrors(errors)
                /\ normalized_errors' = NormalizeLoop(KositErrors(errors), 1, <<>>)
                /\ result' = r.result
                /\ dependencies' = r.dependencies
                /\ last_modified' = r.last_modified
                /\ filter_calls' = r.filter_calls
                /\ explainer_calls' = r.explainer_calls
                /\ run_pc' = "done"
                /\ stages' = Append(stages, "run")
                /\ IF r.result.kind = "raised"
                   THEN /\ errors' = errors
                        /\ fn_pc' = "status"
                   ELSE /\ errors' = [i \in DOMAIN r.result.processed_errors |->
                                         ConvertFlatToTiered(r.result.processed_errors[i])]
                        /\ fn_pc' = "statistics"
    /\ UNCHANGED <<xml_bytes, explVars, fn, fn_args, fn_result, fsVars, applies,
                   errors_before, deps_used, prev_deps, req, cfgVars>>

\* lines 1010-1013: the counts for the log, inside the try block
VF_Statistics ==
    /\ fn = "validate_file"
    /\ fn_pc = "statistics"
    /\ fn_pc' = IF GetAttrFails(errors, "humanized_message") \/ GetAttrFails(errors, "suppressed")
                THEN "status"
                ELSE "deduplicate"
    /\ UNCHANGED <<raw_report, xml_bytes, run_pc, normalized_errors, result, filter_calls,
                   explainer_calls, explVars, fn, fn_args, fn_result, stages, filterVars,
                   fsVars, applyVars, cfgVars>>

\* line 1016, inside the try block
VF_Deduplicate ==
    /\ fn = "validate_file"
    /\ fn_pc = "deduplicate"
    /\ stages' = Append(stages, "_deduplicate_errors")
    /\ LET r == DeduplicateErrors(errors)
       IN  IF r.kind = "raised"
           THEN errors' = errors /\ fn_pc' = "status"
           ELSE errors' = r.value /\ fn_pc' = "suppress"
    /\ UNCHANGED <<raw_report, xml_bytes, run_pc, normalized_errors, result, filter_calls,
                   explainer_calls, explVars, fn, fn_args, fn_result, filterVars, fsVars,
                   applies, errors_before, deps_used, prev_deps, req, cfgVars>>

\* line 1019, inside the try block
VF_CrossSuppress ==
    /\ fn = "validate_file"
    /\ fn_pc = "suppress"
    /\ stages' = Append(stages, "_apply_cross_error_suppression")
    /\ LET r == ApplyCrossErrorSuppression(errors)
       IN  errors' = IF r.kind = "raised" THEN errors ELSE r.value
    /\ fn_pc' = "status"
    /\ UNCHANGED <<raw_report, xml_bytes, run_pc, normalized_errors, result, filter_calls,
                   explainer_calls, explVars, fn, fn_args, fn_result, filterVars, fsVars,
                   applies, errors_before, deps_used, prev_deps, req, cfgVars>>

\* lines 1025-1087: the status; the early return when the validator failed
\* and no finding was parsed
VF_Status ==
    /\ fn = "validate_file"
    /\ fn_pc = "status"
    /\ IF errors = <<>> /\ fn_args.returncode # 0
       THEN /\ errors' = <<ConvertFlatToTiered(ParsingMismatch)>>
            /\ fn_result' = Returned(ValidationResponse("ERROR", errors',
                                                        Str("--- XML REPORT DUMP ---")))
            /\ fn_pc' = "done"
       ELSE /\ fn_pc' = "order"
            /\ UNCHANGED <<errors, fn_result>>
    /\ UNCHANGED <<raw_report, xml_bytes, run_pc, normalized_errors, result, filter_calls,
                   explainer_calls, explVars, fn, fn_args, stages, filterVars, fsVars,
                   applies, errors_before, deps_used, prev_deps, req, cfgVars>>

\* lines 1093-1111: the final order and the response
VF_Order ==
    /\ fn = "validate_file"
    /\ fn_pc = "order"
    /\ IF errors = <<>>
       THEN /\ fn_result' = Returned(ValidationResponse("PASSED", errors, PyNone))
            /\ UNCHANGED errors
       ELSE IF GetAttrFails(errors, "suppressed")
       THEN /\ fn_result' = RaisedError("AttributeError")
            /\ UNCHANGED errors
       ELSE /\ errors' = ActiveFirst(errors)
            /\ fn_result' = Returned(ValidationResponse("REJECTED", errors', PyNone))
    /\ fn_pc' = "done"
    /\ UNCHANGED <<raw_report, xml_bytes, run_pc, normalized_errors, result, filter_calls,
                   explainer_calls, explVars, fn, fn_args, stages, filterVars, fsVars,
                   applies, errors_before, deps_used, prev_deps, req, cfgVars>>

NextValidate ==
    VF_Humanize \/ VF_Statistics \/ VF_Deduplicate \/ VF_CrossSuppress \/ VF_Status \/ VF_Order

SpecValidate == InitValidate /\ [][NextValidate]_vars

SeverityRank(severity) ==
    CASE severity = "fatal" -> 0
      [] severity = "error" -> 1
      [] OTHER -> 2

\* C21: on the enriched path validate_file returns a response for every
\* report, and in the findings of the response no finding of lower severity
\* precedes one of higher severity (fatal, then error, then warning).
C21_SeverityOrdering ==
    (fn = "validate_file" /\ fn_pc = "done") =>
        /\ fn_result.kind = "returned"
        /\ \A i, j \in DOMAIN fn_result.value.errors :
              i < j => SeverityRank(fn_result.value.errors[i].severity)
                           <= SeverityRank(fn_result.value.errors[j].severity)

\* a report of a warning followed by a fatal finding, the pipeline returns
\* both: the call ends with AttributeError and with the two in input order
C21_Counterexample ==
    /\ fn = "validate_file"
    /\ fn_pc = "done"
    /\ Len(fn_args.errors) = 2
    /\ fn_args.errors[1].severity = "warning"
    /\ fn_args.errors[2].severity = "fatal"
    /\ Len(errors) = 2
    /\ errors[1].severity = "warning"
    /\ errors[2].severity = "fatal"
    /\ fn_result = RaisedError("AttributeError")

\* C23: when the report holds a finding and the pipeline has returned, the
\* final order and the response are reached only after
\* _deduplicate_errors and then _apply_cross_error_suppression were called.
C23_StageOrdering ==
    (/\ fn = "validate_file"
     /\ fn_pc \in {"order", "done"}
     /\ fn_args.errors # <<>>
     /\ result.kind = "returned") =>
        stages = <<"run", "_deduplicate_errors", "_apply_cross_error_suppression">>

\* one finding, returned by the pipeline: the final order is reached with
\* the pipeline as the only call made
C23_Counterexample ==
    /\ fn = "validate_file"
    /\ fn_pc = "order"
    /\ Len(fn_args.errors) = 1
    /\ result.kind = "returned"
    /\ Len(result.processed_errors) = 1
    /\ Len(errors) = 1
    /\ stages = <<"run">>

\* the pipeline returned no finding (the document could not be parsed): both
\* functions were called, in order, on the empty list
C23_WitnessEmpty ==
    /\ fn = "validate_file"
    /\ fn_pc = "done"
    /\ fn_args.errors # <<>>
    /\ result.kind = "returned"
    /\ result.processed_errors = <<>>
    /\ stages = <<"run", "_deduplicate_errors", "_apply_cross_error_suppression">>

(***************************************************************************)
(* Writers among themselves (safe_config_update.py 16-88), on SpecCfg.     *)
(***************************************************************************)
\* the locked write section of a call: from flock(LOCK_EX) to flock(LOCK_UN)
InWriteSection(w) == wpc[w] \in {"locked", "written"}

WritersEnded == \A w \in Writers : wpc[w] \in {"done", "failed"}

\* C26: the exclusive lock taken by safe_update_dependencies serializes the
\* writers: at most one call is inside its locked write section at any time,
\* and once every call has ended the configuration file holds the complete
\* text of one caller's configuration.
C26_WriterExclusion ==
    /\ Cardinality({w \in Writers : InWriteSection(w)}) <= 1
    /\ (WritersEnded /\ \E w \in Writers : wpc[w] = "done") =>
          \E w \in Writers :
              /\ wpc[w] = "done"
              /\ inode_content[config_inode] = Serialize(wcfg[w])

\* two calls hold their exclusive locks at once, each on its own temporary
\* file, and both have written a part of their text
C26_Counterexample ==
    \E w1, w2 \in Writers :
        /\ w1 # w2
        /\ wpc[w1] = "locked" /\ wpc[w2] = "locked"
        /\ woff[w1] >= 1 /\ woff[w2] >= 1
        /\ Target(w1) # Target(w2)
        /\ {[owner |-> w1, inode |-> Target(w1)], [owner |-> w2, inode |-> Target(w2)]}
              \subseteq ex_lock

\* the second half alone: after the last rename the file is one caller's
\* complete configuration
C26_FinalFileComplete ==
    (WritersEnded /\ \E w \in Writers : wpc[w] = "done") =>
        \E w \in Writers :
            /\ wpc[w] = "done"
            /\ inode_content[config_inode] = Serialize(wcfg[w])

\* both calls have renamed their files, with different configurations
C26_WitnessBothDone ==
    /\ \A w \in Writers : wpc[w] = "done"
    /\ wcfg[1] # wcfg[2]

(***************************************************************************)
(* The split point of the fallback title and fix (message_catalog.py       *)
(* 75-162), on SpecCatalog.                                                *)
(***************************************************************************)
\* the positions at which some delimiter of the list occurs in the text
DelimiterPositions(normalized, delimiters) ==
    {Find(normalized, delimiters[k], 1) : k \in DOMAIN delimiters} \ {0}

\* the part of the text before the delimiter that occurs first in it
BeforeEarliest(normalized, delimiters) ==
    IF DelimiterPositions(normalized, delimiters) = {} THEN normalized
    ELSE SubSeq(normalized, 1, First(DelimiterPositions(normalized, delimiters)) - 1)

\* C27: for a rule id without catalog entry and a text that is not empty,
\* the title is the part of the whitespace-normalized summary before the
\* delimiter of '. ', '; ', ' - ', ': ', newline that occurs earliest in the
\* text, cut to at most 70 characters at a word boundary; likewise the fix
\* with '. ', '; ', newline and 120 characters.
C27_SplitAtEarliestDelimiter ==
    (fn_pc = "done" /\ fn_args.error_id \notin DOMAIN ERROR_CATALOG /\ fn_args.text # "") =>
        /\ fn = "get_title" =>
              fn_result.value =
                  StripSpace(CutAtWord(BeforeEarliest(NormalizeSpace(fn_args.text),
                                                      TitleDelimiters), title_limit))
        /\ fn = "get_short_fix" =>
              fn_result.value =
                  StripSpace(CutAtWord(BeforeEarliest(NormalizeSpace(fn_args.text),
                                                      FixDelimiters), fix_limit))

\* a summary with ': ' before '. ': the title runs up to the '. '
C27_Counterexample ==
    /\ fn = "get_title"
    /\ fn_pc = "done"
    /\ fn_args.error_id = "BR-99"
    /\ fn_args.text = "xxx: xxx. x"
    /\ fn_result = Returned("xxx: xxx")
    /\ BeforeEarliest(NormalizeSpace(fn_args.text), TitleDelimiters) = "xxx"

\* a fix with '; ' before '. ': the fix runs up to the '. '
C27_CounterexampleFix ==
    /\ fn = "get_short_fix"
    /\ fn_pc = "done"
    /\ fn_args.error_id = "BR-99"
    /\ fn_args.text = "xxx; xxx. x"
    /\ fn_result = Returned("xxx; xxx")

\* the texts that hold at most one kind of delimiter are split as C27 says
C27_WitnessOneDelimiter ==
    /\ fn = "get_title"
    /\ fn_pc = "done"
    /\ fn_args.error_id = "BR-99"
    /\ fn_args.text = "xxx: xxx: x"
    /\ fn_result = Returned("xxx")

(***************************************************************************)
(* SpecIsolate: DiagnosticsPipeline.run with the loop over the findings    *)
(* (pipeline.py 105-126) taken one finding at a time.  The four explainers *)
(* of REGISTRY never raise, so the factory holds, for the ids in           *)
(* fn_args.raising, a BaseExplainer whose explain raises, with or without  *)
(* having stored a text in the finding first.  The ids are strings.        *)
(* stages holds, for each finding the loop has passed, what was done and   *)
(* the finding as the pass left it.                                        *)
(***************************************************************************)
MaxIsolate == 3

IsolateIds == BatchIds \cup {"BR-99"}

IsolateItems ==
    {[id |-> Str(i), message |-> Str("Totals mismatch"), severity |-> Absent,
      location |-> Absent, extra |-> Absent] : i \in IsolateIds}

IsolateEnvs == {env \in PipelineEnvs : ~env.locked /\ env.file \in ValidConfigs}

InitIsolate ==
    /\ raw_report \in SeqsUpTo(IsolateItems, MaxIsolate)
    /\ xml_bytes \in PipelineDocs
    /\ run_pc = "start"
    /\ normalized_errors = <<>>
    /\ result = NoResult
    /\ filter_calls = 0
    /\ explainer_calls = <<>>
    /\ \E env \in IsolateEnvs :
          /\ dependencies = env.deps
          /\ last_modified = env.last_mod
          /\ inode_content = (0 :> Serialize(env.file))
          /\ inode_mtime = (0 :> env.mtime)
          /\ config_inode = 0
          /\ ex_lock = {}
    /\ ExplIdle
    /\ fn = "run"
    /\ fn_args \in [raising : SUBSET {"BR-CO-15", "BR-CO-16"}]
    /\ fn_pc = "idle"
    /\ fn_result = NoCall
    /\ stages = <<>>
    /\ ApplyIdle
    /\ CfgIdle

\* lines 29-103: normalization, the parse (with the early return on a
\* document that does not parse) and the dependency filter
RunEnter ==
    /\ run_pc = "start"
    /\ LET normalized == NormalizeLoop(raw_report, 1, <<>>)
           parsed == Parse(xml_bytes)
           reloaded == ReloadIfChanged(dependencies, last_modified, inode_mtime[config_inode],
                                       IsLocked(config_inode), inode_content[config_inode])
       IN  IF parsed.raised
           THEN /\ normalized_errors' = normalized
                /\ result' = DiagnosticsResult(FatalError, <<>>)
                /\ run_pc' = "done"
                /\ UNCHANGED <<filterVars, filter_calls>>
           ELSE /\ normalized_errors' = SuppressionPass(reloaded.dependencies, normalized).errors
                /\ dependencies' = reloaded.dependencies
                /\ last_modified' = reloaded.last_modified
                /\ filter_calls' = 1
                /\ run_pc' = "explain"
                /\ UNCHANGED result
    /\ UNCHANGED <<raw_report, xml_bytes, explainer_calls, explVars, callVars, fsVars,
                   applyVars, cfgVars>>

\* the finding as a raising explain leaves it: untouched, or with a text
RaisingExplain(error, stored) ==
    IF stored THEN [error EXCEPT !.humanized_message = Str("half an explanation")] ELSE error

\* variant: the except branch logs and leaves the finding as it is
OnExplainerFailureKeep(error) == error

\* lines 119-126: the except branch logs and resets humanized_message
OnExplainerFailure(error) == [error EXCEPT !.humanized_message = PyNone]

\* lines 105-126: one pass of the loop, on the next finding
RunExplain ==
    /\ run_pc = "explain"
    /\ Len(stages) < Len(normalized_errors)
    /\ LET i == Len(stages) + 1
           error == normalized_errors[i]
           context == [kind |-> "context", xml_tree |-> Parse(xml_bytes).tree,
                       namespaces |-> GetNamespaces(Parse(xml_bytes).tree)]
       IN  \E stored \in BOOLEAN :
              LET done ==
                      CASE error.suppressed -> [outcome |-> "skipped", error |-> error]
                        [] ~error.suppressed /\ error.id.v \notin REGISTRY ->
                               [outcome |-> "no_explainer", error |-> error]
                        [] ~error.suppressed /\ error.id.v \in REGISTRY
                           /\ error.id.v \in fn_args.raising ->
                               [outcome |-> "failed",
                                error |-> OnExplainerFailure(RaisingExplain(error, stored))]
                        [] OTHER ->
                               [outcome |-> "explained",
                                error |-> Explain(error.id.v, error, context)]
              IN  /\ normalized_errors' = [normalized_errors EXCEPT ![i] = done.error]
                  /\ stages' = Append(stages, done)
                  /\ explainer_calls' = IF done.outcome \in {"failed", "explained"}
                                        THEN Append(explainer_calls, error.id.v)
                                        ELSE explainer_calls
    /\ UNCHANGED <<raw_report, xml_bytes, run_pc, result, filter_calls, explVars, fn, fn_args,
                   fn_pc, fn_result, filterVars, fsVars, applyVars, cfgVars>>

\* line 128: the loop has passed every finding
RunReturn ==
    /\ run_pc = "explain"
    /\ Len(stages) = Len(normalized_errors)
    /\ result' = DiagnosticsResult(PyNone, normalized_errors)
    /\ run_pc' = "done"
    /\ UNCHANGED <<raw_report, xml_bytes, normalized_errors, filter_calls, explainer_calls,
                   explVars, callVars, filterVars, fsVars, applyVars, cfgVars>>

NextIsolate == RunEnter \/ RunExplain \/ RunReturn

SpecIsolate == InitIsolate /\ [][NextIsolate]_vars

HasExplainer(error) == error.id.v \in REGISTRY

\* C28: when the explainer called for a finding raises, the finding's
\* humanized_message is null afterwards, the loop goes on to every later
\* finding (calling its explainer if it has one and is not suppressed), the
\* findings already passed keep what they were given, and a suppressed
\* finding is never handed to an explainer.
C28_ExplainerFailureIsolation ==
    /\ \A k \in DOMAIN stages :
          /\ normalized_errors[k] = stages[k].error
          /\ stages[k].outcome = "failed" =>
                normalized_errors[k].humanized_message = PyNone
          /\ stages[k].outcome \in {"failed", "explained"} <=>
                (~normalized_errors[k].suppressed /\ HasExplainer(normalized_errors[k]))
          /\ stages[k].outcome = "skipped" <=> normalized_errors[k].suppressed
    /\ (run_pc = "done" /\ result.fatal_error = PyNone) =>
          /\ result.kind = "returned"
          /\ Len(stages) = Len(normalized_errors)
          /\ result.processed_errors = normalized_errors

\* three findings: the first explained, the explainer of the second raised,
\* the third explained after that
C28_Witness ==
    /\ run_pc = "done"
    /\ Len(stages) = 3
    /\ stages[1].outcome = "explained" /\ Truthy(normalized_errors[1].humanized_message)
    /\ stages[2].outcome = "failed" /\ normalized_errors[2].humanized_message = PyNone
    /\ stages[3].outcome = "explained" /\ Truthy(normalized_errors[3].humanized_message)
    /\ result.processed_errors = normalized_errors

\* a finding whose explainer would raise is suppressed and is passed by
C28_WitnessSuppressed ==
    /\ run_pc = "done"
    /\ \E k \in DOMAIN stages :
          /\ stages[k].outcome = "skipped"
          /\ normalized_errors[k].id.v \in fn_args.raising
    /\ \E k \in DOMAIN stages : stages[k].outcome = "failed"

(***************************************************************************)
(* The lookup of the target element in PeppolR001Explainer,                *)
(* UblCr001Explainer and BrCo16Explainer, on SpecExplain.                  *)
(***************************************************************************)
SingleQueryExplainers == {"PEPPOL-EN16931-R001", "UBL-CR-001", "BR-CO-16"}

\* the context the pipeline builds for the same document written with the
\* cbc and cac prefixes declared
QualifiedContext(context) ==
    [context EXCEPT !.xml_tree = Qualified(@, "prefixed"),
                    !.namespaces = GetNamespaces(Qualified(context.xml_tree, "prefixed"))]

\* a context as the pipeline builds it: a parsed tree and the tree's own
\* namespace map
FromPipeline(context) ==
    /\ context.kind = "context"
    /\ context.xml_tree.kind = "tree"
    /\ context.namespaces = GetNamespaces(context.xml_tree)

\* C29: the explainers of PEPPOL-EN16931-R001, UBL-CR-001 and BR-CO-16 find
\* their element by the qualified query, then the local-name query, then
\* the bare tag, so that a document without the cbc/cac prefixes is
\* classified (missing, empty, present with its value) and explained as the
\* same document with the prefixes declared.
C29_FallbackChainEverywhere ==
    (ex_pc = "done" /\ ex_cls \in SingleQueryExplainers /\ FromPipeline(ex_context)) =>
        ex_error.humanized_message =
            Explain(ex_cls, ex_error, QualifiedContext(ex_context)).humanized_message

\* a document without namespaces whose ProfileID is 'abc': the explainer
\* reports the element as missing, and as invalid with its value for the
\* same document with prefixes
C29_Counterexample ==
    /\ ex_pc = "done"
    /\ ex_cls = "PEPPOL-EN16931-R001"
    /\ ex_context.xml_tree = [kind |-> "tree", doc |-> ExplainDoc("none", Str("abc"), "none")]
    /\ ex_context.namespaces = {}
    /\ SubSeq(ex_error.humanized_message.v, 1, 39) = "Missing business process identifier. Ad"
    /\ SubSeq(Explain(ex_cls, ex_error, QualifiedContext(ex_context)).humanized_message.v, 1, 68)
          = "Invalid business process identifier. Found ProfileID: 'abc'. For PEP"

\* the same for UBL-CR-001 and a document with a default namespace only
C29_CounterexampleCustomization ==
    /\ ex_pc = "done"
    /\ ex_cls = "UBL-CR-001"
    /\ ex_context.xml_tree = [kind |-> "tree", doc |-> ExplainDoc("default", Str("abc"), "none")]
    /\ FromPipeline(ex_context)
    /\ SubSeq(ex_error.humanized_message.v, 1, 7) = "Missing"
    /\ SubSeq(Explain(ex_cls, ex_error, QualifiedContext(ex_context)).humanized_message.v, 1, 7)
          = "Invalid"

\* the same for BR-CO-16: no evidence, against the declared total of 20.00
C29_CounterexampleVat ==
    /\ ex_pc = "done"
    /\ ex_cls = "BR-CO-16"
    /\ ex_context.xml_tree.kind = "tree"
    /\ ex_context.xml_tree.doc.style = "none"
    /\ FromPipeline(ex_context)
    /\ ex_error.humanized_message = BrCo16NoEvidence
    /\ Explain(ex_cls, ex_error, QualifiedContext(ex_context)).humanized_message # BrCo16NoEvidence

\* BR-CO-15, whose explainer has the chain, explains both documents alike
C29_WitnessBrCo15 ==
    /\ ex_pc = "done"
    /\ ex_cls = "BR-CO-15"
    /\ ex_context.xml_tree.kind = "tree"
    /\ ex_context.xml_tree.doc.style = "none"
    /\ FromPipeline(ex_context)
    /\ \E k \in DOMAIN ex_context.xml_tree.doc.elems :
          Truthy(ex_context.xml_tree.doc.elems[k].text)
    /\ ex_error.humanized_message =
          Explain(ex_cls, ex_error, QualifiedContext(ex_context)).humanized_message
    /\ ex_error.humanized_message # BrCo15Generic

(***************************************************************************)
(* The recorded modification time and the active map                       *)
(* (dependency_filter.py 23-84), on SpecCfg and SpecRead.                  *)
(***************************************************************************)
\* the configuration the path names now, as json.loads gives it
CurrentFile == JsonLoads(inode_content[config_inode]).value

\* the path names a file that a reload would load as another map than the
\* active one, and _should_reload_config answers False
Hidden ==
    /\ JsonLoads(inode_content[config_inode]).ok
    /\ CurrentFile.kind = "dict"
    /\ ValidateConfig(CurrentFile.entries) # dependencies
    /\ ~ShouldReloadConfig(inode_mtime[config_inode], last_modified)

\* C30: after a successful reload the recorded modification time is not
\* ahead of the loaded content: whenever the path names a file version that
\* differs from the active map, the check of the modification time asks for
\* a reload, under every interleaving of the writers' renames with the
\* reader's steps.
C30_TimestampNotAhead ==
    (rpc = "idle" /\ reload_outcome = "loaded") => ~Hidden

\* the reader has loaded the file of one writer, recorded its time, and the
\* other writer then renames a file it had written before: the time of the
\* file the path names is behind the recorded one
C30_Counterexample ==
    /\ rpc = "idle"
    /\ reload_outcome = "loaded"
    /\ \E w1, w2 \in Writers :
          /\ w1 # w2
          /\ wpc[w1] = "done" /\ wpc[w2] = "done"
          /\ config_inode = w1
          /\ dependencies = ValidateConfig(wcfg[w2].entries)
          /\ last_modified = inode_mtime[w2]
          /\ inode_mtime[w1] < last_modified
    /\ Hidden

\* the rename falls between the reading of the time and the reading of the
\* content: the reader holds the new map under the old time, and the next
\* check asks for a reload
C30_WitnessNewerContent ==
    /\ rpc = "idle"
    /\ reload_outcome = "loaded"
    /\ dependencies = ValidateConfig(CurrentFile.entries)
    /\ dependencies # deps_before
    /\ last_modified < inode_mtime[config_inode]
    /\ ShouldReloadConfig(inode_mtime[config_inode], last_modified)

====
